---- MODULE Spec2Model ----
(***************************************************************************)
(* Data integrity and provenance subsystem of Inspector IA                 *)
(* (src/data/integrity/verification.py): MerkleTree, MockBlockchain and    *)
(* DataIntegrityManager, as state machines.                                *)
(*                                                                         *)
(* SHA-256 is modelled as a free (collision-free) constructor: a digest is *)
(* the record of what was hashed.  Byte strings, hex strings, ISO          *)
(* timestamps and JSON texts are likewise tagged records, so that every    *)
(* conversion is injective but never the identity.                         *)
(***************************************************************************)
EXTENDS Integers, Sequences, FiniteSets, TLC

VARIABLES
    merkle_tree,          \* MerkleTree: [leaves, tree, root]
    transactions,         \* MockBlockchain.transactions, in insertion order
    transaction_counter,  \* MockBlockchain.transaction_counter
    snapshots,            \* DataIntegrityManager.snapshots: id -> snapshot
    now,                  \* the wall clock read by datetime.now()
    ret,                  \* what the last call returned (or raised)
    appended,             \* history: one [data, result] per add_leaf call
    registered,           \* history: one [tx_hash, data, ...] per registration
    pc,                   \* position of each concurrent caller
    loc,                  \* local variables of each concurrent caller
    peer,                 \* a second DataIntegrityManager on the same ledger:
                          \* its own [merkle_tree, snapshots]
    recorded              \* history: one [entry, tx_id] per record_transaction call

vars == <<merkle_tree, transactions, transaction_counter, snapshots, now, ret,
          appended, registered, pc, loc, peer, recorded>>

(***************************************************************************)
(* Bounds of the model.                                                    *)
(***************************************************************************)
MaxLeaves == 5      \* add_leaf calls in the tree specification
MaxTx == 2          \* record_transaction calls in the manager specification
MaxTime == 1        \* last clock value
MaxIds == 2         \* length of a snapshot id list given to a report
NThreads == 2       \* concurrent callers in the concurrent specifications
MaxPre == 1         \* leaves already in the tree when the concurrent calls start
MaxLedgerTx == 3    \* record_transaction calls in the ledger specification
MaxLedgerTime == 2  \* last clock value in the ledger specification
MaxCanonTx == 2     \* registrations in the canonicalization specification
MaxVerifyLeaves == 2  \* add_leaf calls in the verify_proof specification
MaxSharedTx == 2    \* registrations in the shared-ledger specification
MaxLiveLeaves == 4  \* leaves of the tree in the add_leaf termination specification

NoneValue == [none |-> TRUE]

\* The sequences over S of length at most n.
RECURSIVE SeqsUpTo(_, _)
SeqsUpTo(S, n) ==
    IF n = 0 THEN {<<>>}
    ELSE SeqsUpTo(S, n - 1)
         \cup {Append(q, x) : q \in {r \in SeqsUpTo(S, n - 1) : Len(r) = n - 1}, x \in S}

(***************************************************************************)
(* Payloads and their canonical serialization.                             *)
(* A dict is the sequence of its <<key, value>> items in insertion order;  *)
(* a value is a number, a list, a dict, or an object of a type json does   *)
(* not know.  A payload holding a reference cycle cannot be serialized.    *)
(***************************************************************************)
IntValue(n) == [kind |-> "int", n |-> n]
ListValue(elems) == [kind |-> "list", elems |-> elems]
DictValue(items) == [kind |-> "dict", items |-> items]
ObjectValue == [kind |-> "object", type |-> "set"]

EmptyDict == DictValue(<<>>)
DictA1 == DictValue(<<[k |-> "a", v |-> IntValue(1)]>>)
DictA1B1 == DictValue(<<[k |-> "a", v |-> IntValue(1)], [k |-> "b", v |-> IntValue(1)]>>)
DictB1A1 == DictValue(<<[k |-> "b", v |-> IntValue(1)], [k |-> "a", v |-> IntValue(1)]>>)
Cyclic == [kind |-> "cyclic", items |-> <<>>]
NestedAB == DictValue(<<[k |-> "a", v |-> DictA1B1], [k |-> "b", v |-> IntValue(1)]>>)
NestedBA == DictValue(<<[k |-> "b", v |-> IntValue(1)], [k |-> "a", v |-> DictB1A1]>>)
List12 == DictValue(<<[k |-> "a", v |-> ListValue(<<IntValue(1), IntValue(2)>>)]>>)
List21 == DictValue(<<[k |-> "a", v |-> ListValue(<<IntValue(2), IntValue(1)>>)]>>)
Unsupported == DictValue(<<[k |-> "a", v |-> ObjectValue]>>)

Serializable == {EmptyDict, DictA1, DictA1B1, DictB1A1}
Payloads == Serializable \cup {Cyclic}
CanonPayloads == {NestedAB, NestedBA, List12, List21, Unsupported, Cyclic}

KeyRank(k) == IF k = "a" THEN 1 ELSE 2

\* A faulty variant of SortItems: the items stay in insertion order.
SortItems_as_inserted(items) == items

\* The items of a dict ordered by key (sort_keys=True).
RECURSIVE SortItems(_)
SortItems(items) ==
    IF items = <<>> THEN <<>>
    ELSE LET m == CHOOSE i \in 1..Len(items) :
                    \A j \in 1..Len(items) : KeyRank(items[i].k) <= KeyRank(items[j].k)
             rest == [j \in 1..(Len(items) - 1) |-> IF j < m THEN items[j] ELSE items[j + 1]]
         IN  <<items[m]>> \o SortItems(rest)

\* json.dumps raises ValueError exactly on a circular reference.
RECURSIVE CanSerialize(_)
CanSerialize(data) ==
    CASE data.kind = "cyclic" -> FALSE
      [] data.kind = "dict" -> \A i \in 1..Len(data.items) : CanSerialize(data.items[i].v)
      [] data.kind = "list" -> \A i \in 1..Len(data.elems) : CanSerialize(data.elems[i])
      [] OTHER -> TRUE

\* json.dumps(data, sort_keys=True, default=str): the JSON text.  Keys are
\* sorted at every depth, lists keep their order, and a value of a type json
\* does not know is written as the string str(value).
RECURSIVE json_dumps(_)
json_dumps(data) ==
    CASE data.kind = "dict" ->
            [json |-> LET sorted == SortItems(data.items)
                      IN  [i \in 1..Len(sorted) |->
                              [k |-> sorted[i].k, v |-> json_dumps(sorted[i].v)]]]
      [] data.kind = "list" ->
            [array |-> [i \in 1..Len(data.elems) |-> json_dumps(data.elems[i])]]
      [] data.kind = "int" -> [number |-> data.n]
      [] OTHER -> [string |-> [str |-> data]]

DataStrings == {json_dumps(p) : p \in Serializable}

(***************************************************************************)
(* Hash primitive and encodings.                                           *)
(***************************************************************************)
encode(s) == [utf8 |-> s]                       \* str.encode('utf-8')

\* A str given by its code points, here one lone surrogate ('\ud800').
LoneSurrogate == [chars |-> <<55296>>]

\* Whether str.encode('utf-8') returns: it raises UnicodeEncodeError on a
\* surrogate code point (U+D800..U+DFFF).  The texts json.dumps writes are
\* ASCII (ensure_ascii) and always encode.
can_encode(s) ==
    ~ ("chars" \in DOMAIN s /\ \E i \in 1..Len(s.chars) : s.chars[i] \in 55296..57343)
sha256(bytes) == [sha256 |-> bytes]             \* hashlib.sha256(bytes).digest()
concat(left, right) == [cat |-> <<left, right>>]  \* left + right
hex(digest) == [hex |-> digest]                 \* bytes.hex() / hexdigest()
fromhex(h) == h.hex                             \* bytes.fromhex
isoformat(t) == [iso |-> t]                     \* datetime.isoformat()

(***************************************************************************)
(* MerkleTree                                                              *)
(***************************************************************************)
EmptyTree == [leaves |-> <<>>, tree |-> <<>>, root |-> NoneValue]

\* A faulty variant of next_level: an unmatched last node is carried up as it is.
next_level_promote_odd(current_level) ==
    [i \in 1..((Len(current_level) + 1) \div 2) |->
        IF 2 * i <= Len(current_level)
        THEN sha256(concat(current_level[2 * i - 1], current_level[2 * i]))
        ELSE current_level[2 * i - 1]]

\* One pass of the pairing loop of _build_tree (lines 80-95).
next_level(current_level) ==
    [i \in 1..((Len(current_level) + 1) \div 2) |->
        LET left == current_level[2 * i - 1]
            right == IF 2 * i <= Len(current_level)
                     THEN current_level[2 * i]
                     ELSE left
        IN  sha256(concat(left, right))]

\* A faulty variant of upper_levels: the loop stops at a level of two nodes.
RECURSIVE upper_levels_stop_at_two(_)
upper_levels_stop_at_two(current_level) ==
    IF Len(current_level) > 2
    THEN <<next_level(current_level)>> \o upper_levels_stop_at_two(next_level(current_level))
    ELSE <<>>

\* The levels appended by the while loop of _build_tree, above current_level.
RECURSIVE upper_levels(_)
upper_levels(current_level) ==
    IF Len(current_level) > 1
    THEN <<next_level(current_level)>> \o upper_levels(next_level(current_level))
    ELSE <<>>

\* A faulty variant of build_tree: the pairing loop runs at least once, so a
\* single leaf is paired with itself.
build_tree_pair_single(leaves) ==
    IF leaves = <<>>
    THEN [leaves |-> leaves, tree |-> <<>>, root |-> NoneValue]
    ELSE LET levels == <<leaves, next_level(leaves)>> \o upper_levels(next_level(leaves))
         IN  [leaves |-> leaves, tree |-> levels,
              root |-> levels[Len(levels)][1]]

\* _build_tree: the fields tree and root rebuilt from leaves.
build_tree(leaves) ==
    IF leaves = <<>>
    THEN [leaves |-> leaves, tree |-> <<>>, root |-> NoneValue]
    ELSE LET levels == <<leaves>> \o upper_levels(leaves)
         IN  [leaves |-> leaves, tree |-> levels,
              root |-> levels[Len(levels)][1]]

\* A faulty variant of proof_element: the left sibling of an odd position is recorded
\* as standing on the right.
proof_element_all_right(level_nodes, current_index) ==
    IF current_index % 2 = 0
    THEN IF current_index + 1 < Len(level_nodes)
         THEN [hash |-> hex(level_nodes[current_index + 2]), position |-> "right"]
         ELSE [hash |-> hex(level_nodes[current_index + 1]), position |-> "right"]
    ELSE [hash |-> hex(level_nodes[current_index]), position |-> "right"]

\* A faulty variant of proof_element: the sides are exchanged.
proof_element_swapped(level_nodes, current_index) ==
    IF current_index % 2 = 0
    THEN IF current_index + 1 < Len(level_nodes)
         THEN [hash |-> hex(level_nodes[current_index + 2]), position |-> "left"]
         ELSE [hash |-> hex(level_nodes[current_index + 1]), position |-> "left"]
    ELSE [hash |-> hex(level_nodes[current_index]), position |-> "right"]

\* The proof entry of _generate_proof at one level (0-based current_index).
proof_element(level_nodes, current_index) ==
    IF current_index % 2 = 0
    THEN IF current_index + 1 < Len(level_nodes)
         THEN [hash |-> hex(level_nodes[current_index + 2]), position |-> "right"]
         ELSE [hash |-> hex(level_nodes[current_index + 1]), position |-> "right"]
    ELSE [hash |-> hex(level_nodes[current_index]), position |-> "left"]

\* A faulty variant of proof_from: the loop also visits the root level.
RECURSIVE proof_from_root_level(_, _, _)
proof_from_root_level(tree, level, current_index) ==
    IF level >= Len(tree) THEN <<>>
    ELSE <<proof_element(tree[level + 1], current_index)>>
         \o proof_from_root_level(tree, level + 1, current_index \div 2)

\* The loop of _generate_proof from `level` (0-based) upwards.
RECURSIVE proof_from(_, _, _)
proof_from(tree, level, current_index) ==
    IF level >= Len(tree) - 1 THEN <<>>
    ELSE <<proof_element(tree[level + 1], current_index)>>
         \o proof_from(tree, level + 1, current_index \div 2)

\* A faulty variant of generate_proof: the loop starts above the leaf level.
generate_proof_above_leaves(t, leaf_index) ==
    IF leaf_index >= Len(t.leaves) THEN <<>>
    ELSE proof_from(t.tree, 1, leaf_index \div 2)

\* _generate_proof(leaf_index) on tree object t.
generate_proof(t, leaf_index) ==
    IF leaf_index >= Len(t.leaves) THEN <<>>
    ELSE proof_from(t.tree, 0, leaf_index)

\* The recombination loop of verify_proof.
RECURSIVE apply_proof(_, _)
apply_proof(current_hash, proof) ==
    IF proof = <<>> THEN current_hash
    ELSE LET sibling_hash == fromhex(Head(proof).hash)
             combined == IF Head(proof).position = "left"
                         THEN concat(sibling_hash, current_hash)
                         ELSE concat(current_hash, sibling_hash)
         IN  apply_proof(sha256(combined), Tail(proof))

\* verify_proof(leaf_data, proof, root): reads no field of the tree.
verify_proof(leaf_data, proof, root) ==
    hex(apply_proof(sha256(encode(leaf_data)), proof)) = root

\* self.root.hex() if self.root else None
root_hex(t) == IF t.root = NoneValue THEN NoneValue ELSE hex(t.root)

get_root(t) == root_hex(t)

\* A faulty variant of verify_proof_on: the computed root is also compared with
\* the root the tree object holds.
verify_proof_on_live_root(t, leaf_data, proof, root) ==
    /\ hex(apply_proof(sha256(encode(leaf_data)), proof)) = root
    /\ root = root_hex(t)

\* verify_proof called as a method of tree object t (self): its body uses
\* only its arguments.
verify_proof_on(t, leaf_data, proof, root) == verify_proof(leaf_data, proof, root)

\* A faulty variant of add_leaf_tree: the leaf is appended and the levels
\* and the root are left as they were.
add_leaf_tree_stale_levels(t, data) ==
    [t EXCEPT !.leaves = Append(@, sha256(encode(data)))]

\* add_leaf(data): the tree after the call.
add_leaf_tree(t, data) == build_tree(Append(t.leaves, sha256(encode(data))))

\* A faulty variant of add_leaf_result: the index returned counts from one.
add_leaf_result_one_based(t, data) ==
    LET t2 == add_leaf_tree(t, data)
    IN  [leaf_hash |-> hex(sha256(encode(data))),
         leaf_index |-> Len(t2.leaves),
         proof |-> generate_proof(t2, Len(t2.leaves) - 1),
         root |-> root_hex(t2)]

\* add_leaf(data): the dictionary returned.
add_leaf_result(t, data) ==
    LET t2 == add_leaf_tree(t, data)
    IN  [leaf_hash |-> hex(sha256(encode(data))),
         leaf_index |-> Len(t2.leaves) - 1,
         proof |-> generate_proof(t2, Len(t2.leaves) - 1),
         root |-> root_hex(t2)]

(***************************************************************************)
(* MockBlockchain                                                          *)
(* transactions is a Python dict: a sequence of values in insertion order, *)
(* keyed by tx_id; assigning to a present key replaces the value in place. *)
(***************************************************************************)
str(n) == [str |-> n]

\* f"0x{hashlib.sha256(str(counter).encode()).hexdigest()[:16]}"
tx_id_of(counter) == [prefix |-> "0x", digest16 |-> hex(sha256(encode(str(counter))))]

has_key(txs, tx_id) == \E i \in 1..Len(txs) : txs[i].tx_id = tx_id

\* self.transactions[tx_id] = transaction
dict_set(txs, tx_id, transaction) ==
    IF has_key(txs, tx_id)
    THEN [i \in 1..Len(txs) |-> IF txs[i].tx_id = tx_id THEN transaction ELSE txs[i]]
    ELSE Append(txs, transaction)

\* self.transactions.get(tx_id)
dict_get(txs, tx_id) ==
    IF has_key(txs, tx_id)
    THEN txs[CHOOSE i \in 1..Len(txs) : txs[i].tx_id = tx_id]
    ELSE NoneValue

\* The BlockchainTransaction built at lines 238-246.
new_transaction(tx_id, t, transaction_data) ==
    [tx_id |-> tx_id,
     timestamp |-> t,
     data_hash |-> transaction_data.data_hash,
     merkle_root |-> transaction_data.merkle_root,
     merkle_proof |-> transaction_data.merkle_proof,
     source_url |-> transaction_data.source,
     metadata |-> IF "metadata" \in DOMAIN transaction_data
                  THEN transaction_data.metadata
                  ELSE EmptyDict]

\* A faulty variant of record_transaction: the id is derived from the entry's content.
record_transaction_content_id(txs, counter, transaction_data, t) ==
    LET c == counter + 1
        tx_id == [prefix |-> "0x", digest16 |-> transaction_data.data_hash]
    IN  [transactions |-> dict_set(txs, tx_id, new_transaction(tx_id, t, transaction_data)),
         transaction_counter |-> c,
         tx_id |-> tx_id]

\* record_transaction run alone: the ledger after the call and the id returned.
record_transaction(txs, counter, transaction_data, t) ==
    LET c == counter + 1
        tx_id == tx_id_of(c)
    IN  [transactions |-> dict_set(txs, tx_id, new_transaction(tx_id, t, transaction_data)),
         transaction_counter |-> c,
         tx_id |-> tx_id]

\* A faulty variant of to_dict: the metadata is not copied out.
to_dict_without_metadata(transaction) ==
    [tx_id |-> transaction.tx_id,
     timestamp |-> isoformat(transaction.timestamp),
     data_hash |-> transaction.data_hash,
     merkle_root |-> transaction.merkle_root,
     merkle_proof |-> transaction.merkle_proof,
     source_url |-> transaction.source_url,
     metadata |-> EmptyDict]

\* BlockchainTransaction.to_dict
to_dict(transaction) ==
    [tx_id |-> transaction.tx_id,
     timestamp |-> isoformat(transaction.timestamp),
     data_hash |-> transaction.data_hash,
     merkle_root |-> transaction.merkle_root,
     merkle_proof |-> transaction.merkle_proof,
     source_url |-> transaction.source_url,
     metadata |-> transaction.metadata]

get_transaction(txs, tx_id) ==
    IF dict_get(txs, tx_id) = NoneValue THEN NoneValue
    ELSE to_dict(dict_get(txs, tx_id))

\* source_filter in t.source_url (substring)
contains(needle, haystack) ==
    \E i \in 0..(Len(haystack) - Len(needle)) :
        \A j \in 1..Len(needle) : haystack[i + j] = needle[j]

\* A source_filter is [given |-> FALSE] (None) or [given |-> TRUE, text |-> chars].
NoFilter == [given |-> FALSE, text |-> <<>>]
filter_of(text) == [given |-> TRUE, text |-> text]

\* if source_filter: keep the transactions whose source_url contains it.
filter_transactions(txs, source_filter) ==
    IF source_filter.given /\ source_filter.text # <<>>
    THEN SelectSeq(txs, LAMBDA t : contains(source_filter.text, t.source_url))
    ELSE txs

\* A faulty variant of sort_desc: the transactions are sorted oldest first.
RECURSIVE sort_asc(_)
sort_asc(txs) ==
    IF txs = <<>> THEN <<>>
    ELSE LET m == CHOOSE i \in 1..Len(txs) :
                    /\ \A j \in 1..Len(txs) : txs[i].timestamp <= txs[j].timestamp
                    /\ \A j \in 1..(i - 1) : txs[i].timestamp < txs[j].timestamp
             rest == [j \in 1..(Len(txs) - 1) |-> IF j < m THEN txs[j] ELSE txs[j + 1]]
         IN  <<txs[m]>> \o sort_asc(rest)

\* transactions.sort(key=timestamp, reverse=True): stable, latest first.
RECURSIVE sort_desc(_)
sort_desc(txs) ==
    IF txs = <<>> THEN <<>>
    ELSE LET m == CHOOSE i \in 1..Len(txs) :
                    /\ \A j \in 1..Len(txs) : txs[j].timestamp <= txs[i].timestamp
                    /\ \A j \in 1..(i - 1) : txs[j].timestamp < txs[i].timestamp
             rest == [j \in 1..(Len(txs) - 1) |-> IF j < m THEN txs[j] ELSE txs[j + 1]]
         IN  <<txs[m]>> \o sort_desc(rest)

\* seq[:limit]
slice_to(seq, limit) ==
    LET n == IF limit >= 0
             THEN (IF limit < Len(seq) THEN limit ELSE Len(seq))
             ELSE (IF Len(seq) + limit > 0 THEN Len(seq) + limit ELSE 0)
    IN  SubSeq(seq, 1, n)

list_transactions(txs, limit, source_filter) ==
    LET sorted == slice_to(sort_desc(filter_transactions(txs, source_filter)), limit)
    IN  [i \in 1..Len(sorted) |-> to_dict(sorted[i])]

(***************************************************************************)
(* DataIntegrityManager                                                    *)
(***************************************************************************)
\* The callers of register_data_snapshot: a source url and the metadata it sends.
Callers == {[source_url |-> <<"u", "1">>, metadata |-> NoneValue],
            [source_url |-> <<"u", "2">>, metadata |-> DictA1]}

\* metadata or {}
metadata_or_empty(metadata) ==
    IF metadata = NoneValue \/ metadata = EmptyDict THEN EmptyDict ELSE metadata

\* f"{source_url}:{timestamp.isoformat()}"
snapshot_id_of(source_url, t) == [source |-> source_url, sep |-> ":", ts |-> isoformat(t)]

\* A faulty variant of data_hash_of: the digest of a fresh hash object that was never
\* fed the data.
data_hash_of_nothing(data_json) == hex(sha256(encode(json_dumps(EmptyDict))))

\* hashlib.sha256(data_json.encode()).hexdigest()
data_hash_of(data_json) == hex(sha256(encode(data_json)))

\* A faulty variant of tx_data_of: the proof is left out of the ledger entry.
tx_data_of_without_proof(source_url, data_hash, merkle_result, metadata) ==
    [source |-> source_url,
     data_hash |-> data_hash,
     merkle_root |-> merkle_result.root,
     merkle_proof |-> <<>>,
     metadata |-> metadata_or_empty(metadata)]

\* tx_data of register_data_snapshot (lines 343-349).
tx_data_of(source_url, data_hash, merkle_result, metadata) ==
    [source |-> source_url,
     data_hash |-> data_hash,
     merkle_root |-> merkle_result.root,
     merkle_proof |-> merkle_result.proof,
     metadata |-> metadata_or_empty(metadata)]

\* The snapshot entry stored at lines 355-361.
snapshot_of(data_hash, tx_hash, t, source_url, merkle_result) ==
    [data_hash |-> data_hash,
     tx_hash |-> tx_hash,
     timestamp |-> t,
     source_url |-> source_url,
     merkle_result |-> merkle_result]

\* self.snapshots[snapshot_id] = snapshot
snapshots_set(snaps, snapshot_id, snapshot) ==
    [k \in DOMAIN snaps \cup {snapshot_id} |->
        IF k = snapshot_id THEN snapshot ELSE snaps[k]]

\* A faulty variant of merkle_check: the stored root is compared with the live tree's.
merkle_check_live(t, data_json, transaction) ==
    root_hex(t) = transaction.merkle_root

\* A faulty variant of merkle_check: the leaf must also be one of the leaves of
\* the manager's own tree.
merkle_check_own_leaf(t, data_json, transaction) ==
    /\ verify_proof(data_json, transaction.merkle_proof, transaction.merkle_root)
    /\ \E i \in 1..Len(t.leaves) : t.leaves[i] = sha256(encode(data_json))

\* The merkle_verified of verify_data_integrity (lines 406-410): the stored
\* proof and root of the transaction, not the live tree.
merkle_check(t, data_json, transaction) ==
    verify_proof(data_json, transaction.merkle_proof, transaction.merkle_root)

\* A faulty variant of verify_data_integrity: the payload is serialized before the
\* transaction is looked up.
verify_data_integrity_dumps_first(t, txs, data, tx_hash) ==
    LET transaction == get_transaction(txs, tx_hash)
    IN  IF ~CanSerialize(data)
        THEN [raised |-> "ValueError"]
        ELSE IF transaction = NoneValue
        THEN [verified |-> FALSE,
              reason |-> "Transaction not found in blockchain",
              tx_hash |-> tx_hash]
        ELSE LET data_json == json_dumps(data)
                 hashes_match == (data_hash_of(data_json) = transaction.data_hash)
                 merkle_verified == merkle_check(t, data_json, transaction)
             IN  [verified |-> hashes_match /\ merkle_verified,
                  hashes_match |-> hashes_match,
                  merkle_verified |-> merkle_verified]

\* verify_data_integrity(data, tx_hash) on tree t and ledger txs.
verify_data_integrity(t, txs, data, tx_hash) ==
    LET transaction == get_transaction(txs, tx_hash)
    IN  IF transaction = NoneValue
        THEN [verified |-> FALSE,
              reason |-> "Transaction not found in blockchain",
              tx_hash |-> tx_hash]
        ELSE IF ~CanSerialize(data)
        THEN [raised |-> "ValueError"]
        ELSE LET data_json == json_dumps(data)
                 current_hash == data_hash_of(data_json)
                 original_hash == transaction.data_hash
                 hashes_match == (current_hash = original_hash)
                 merkle_verified == merkle_check(t, data_json, transaction)
             IN  [verified |-> hashes_match /\ merkle_verified,
                  hashes_match |-> hashes_match,
                  merkle_verified |-> merkle_verified,
                  original_hash |-> original_hash,
                  current_hash |-> current_hash,
                  source_url |-> transaction.source_url,
                  timestamp |-> transaction.timestamp,
                  tx_hash |-> tx_hash,
                  details |-> [data_unchanged |-> hashes_match,
                               chain_of_custody_intact |-> merkle_verified,
                               blockchain_confirmed |-> TRUE]]

\* The payload generate_integrity_report verifies for every snapshot (line 465).
report_payload == EmptyDict

\* A faulty variant of report_entry: an unknown snapshot id is tallied as failed.
report_entry_unknown_failed(t, txs, snaps, snapshot_id) ==
    IF snapshot_id \notin DOMAIN snaps
    THEN [snapshot_id |-> snapshot_id, status |-> "failed"]
    ELSE [snapshot_id |-> snapshot_id,
          status |-> IF verify_data_integrity(t, txs, report_payload,
                                              snaps[snapshot_id].tx_hash).verified
                     THEN "verified" ELSE "failed"]

\* The entry of verification_results for one snapshot id (lines 453-483).
report_entry(t, txs, snaps, snapshot_id) ==
    IF snapshot_id \notin DOMAIN snaps
    THEN [snapshot_id |-> snapshot_id, status |-> "not_found"]
    ELSE LET snapshot == snaps[snapshot_id]
             verification == verify_data_integrity(t, txs, report_payload, snapshot.tx_hash)
         IN  [snapshot_id |-> snapshot_id,
              status |-> IF verification.verified THEN "verified" ELSE "failed",
              source_url |-> snapshot.source_url,
              timestamp |-> isoformat(snapshot.timestamp),
              tx_hash |-> snapshot.tx_hash,
              verification_details |-> verification]

count_status(results, status) ==
    Cardinality({i \in 1..Len(results) : results[i].status = status})

\* A faulty variant of integrity_score: the not_found entries enter the denominator.
integrity_score_all(summary) ==
    LET total == summary.verified + summary.failed + summary.not_found
    IN  IF total > 0
        THEN [num |-> summary.verified * 100, den |-> total]
        ELSE [num |-> 0, den |-> 1]

\* (verified / total) * 100 as an exact fraction num/den; 0.0 when total = 0
\* (lines 486-492).
integrity_score(summary) ==
    LET total == summary.verified + summary.failed
    IN  IF total > 0
        THEN [num |-> summary.verified * 100, den |-> total]
        ELSE [num |-> 0, den |-> 1]

\* generate_integrity_report(snapshot_ids).
generate_integrity_report(t, txs, snaps, snapshot_ids, clock) ==
    LET results == [i \in 1..Len(snapshot_ids) |->
                        report_entry(t, txs, snaps, snapshot_ids[i])]
        summary == [verified |-> count_status(results, "verified"),
                    failed |-> count_status(results, "failed"),
                    not_found |-> count_status(results, "not_found")]
    IN  [report_timestamp |-> isoformat(clock),
         snapshots_checked |-> Len(snapshot_ids),
         verification_results |-> results,
         summary |-> [verified |-> summary.verified,
                      failed |-> summary.failed,
                      not_found |-> summary.not_found,
                      integrity_score |-> integrity_score(summary)]]

NotAvailable == "Certificate not available - transaction not found"

\* A faulty variant of export_verification_certificate: the transaction is
\* used without the test for None, so an unknown tx_hash raises.
export_verification_certificate_unguarded(txs, tx_hash, clock) ==
    LET transaction == get_transaction(txs, tx_hash)
    IN  IF transaction = NoneValue
        THEN [raised |-> "TypeError"]
        ELSE [text |-> "certificate",
              transaction_id |-> tx_hash,
              timestamp |-> transaction.timestamp,
              source |-> transaction.source_url,
              data_hash |-> transaction.data_hash,
              merkle_root |-> transaction.merkle_root,
              verification_url |-> [prefix |-> "https://inspector-ia.com/verify/",
                                    tx_hash |-> tx_hash],
              generated |-> isoformat(clock)]

\* export_verification_certificate(tx_hash): the fields rendered into the text.
export_verification_certificate(txs, tx_hash, clock) ==
    LET transaction == get_transaction(txs, tx_hash)
    IN  IF transaction = NoneValue
        THEN [text |-> NotAvailable]
        ELSE [text |-> "certificate",
              transaction_id |-> tx_hash,
              timestamp |-> transaction.timestamp,
              source |-> transaction.source_url,
              data_hash |-> transaction.data_hash,
              merkle_root |-> transaction.merkle_root,
              verification_url |-> [prefix |-> "https://inspector-ia.com/verify/",
                                    tx_hash |-> tx_hash],
              generated |-> isoformat(clock)]

(***************************************************************************)
(* Specification of one MerkleTree used sequentially.                      *)
(***************************************************************************)
\* The state after construction (lines 33-37, 220-223, 310-312).
InitState ==
    /\ merkle_tree = EmptyTree
    /\ transactions = <<>>
    /\ transaction_counter = 0
    /\ snapshots = <<>>
    /\ now = 0
    /\ ret = [op |-> "init"]
    /\ appended = <<>>
    /\ registered = <<>>
    /\ peer = [merkle_tree |-> EmptyTree, snapshots |-> <<>>]
    /\ recorded = <<>>

InitCommon ==
    /\ InitState
    /\ pc = <<>>
    /\ loc = <<>>

TreeAddLeaf ==
    \E data \in DataStrings :
        /\ Len(merkle_tree.leaves) < MaxLeaves
        /\ merkle_tree' = add_leaf_tree(merkle_tree, data)
        /\ ret' = [op |-> "add_leaf", data |-> data,
                   result |-> add_leaf_result(merkle_tree, data)]
        /\ appended' = Append(appended, [data |-> data,
                                         result |-> add_leaf_result(merkle_tree, data)])
        /\ UNCHANGED <<transactions, transaction_counter, snapshots, now,
                       registered, pc, loc, peer, recorded>>

TreeGetRoot ==
    /\ ret' = [op |-> "get_root", result |-> get_root(merkle_tree)]
    /\ UNCHANGED <<merkle_tree, transactions, transaction_counter, snapshots, now,
                   appended, registered, pc, loc, peer, recorded>>

\* _generate_proof(leaf_index) called for any leaf of the tree, or past the end.
TreeGenerateProof ==
    \E leaf_index \in 0..MaxLeaves :
        /\ ret' = [op |-> "generate_proof", leaf_index |-> leaf_index,
                   result |-> generate_proof(merkle_tree, leaf_index)]
        /\ UNCHANGED <<merkle_tree, transactions, transaction_counter, snapshots, now,
                       appended, registered, pc, loc, peer, recorded>>

TreeNext == TreeAddLeaf \/ TreeGetRoot \/ TreeGenerateProof

SpecTree == InitCommon /\ [][TreeNext]_vars

(***************************************************************************)
(* Specification of one DataIntegrityManager and its ledger, used          *)
(* sequentially; the ledger is also reachable directly (blockchain_client).*)
(***************************************************************************)
\* Ids a caller may ask for: unknown to the ledger until the counter reaches them.
TxHashes == {tx_id_of(c) : c \in 1..MaxTx}

\* Snapshot ids a caller may list: the stored ones and one that is never stored.
UnknownSnapshotId == snapshot_id_of(<<"x">>, 0)
SnapshotIds == DOMAIN snapshots \cup {UnknownSnapshotId}

\* An entry given directly to the ledger by another client of the chain.
DirectEntries ==
    {[source |-> <<"u", "2">>,
      data_hash |-> data_hash_of(json_dumps(DictA1)),
      merkle_root |-> data_hash_of(json_dumps(DictA1)),
      merkle_proof |-> <<>>]}

\* Time passes between calls.
Tick ==
    /\ now < MaxTime
    /\ now' = now + 1
    /\ UNCHANGED <<merkle_tree, transactions, transaction_counter, snapshots, ret,
                   appended, registered, pc, loc, peer, recorded>>

\* register_data_snapshot(source_url, data, metadata) as one step; the clock
\* may advance between its own reading (line 331) and the ledger's (line 240),
\* which reads t2.
register_data_snapshot(caller, data, t2) ==
    /\ IF ~CanSerialize(data)
       THEN /\ ret' = [op |-> "register", data |-> data, raised |-> "ValueError"]
            /\ UNCHANGED <<merkle_tree, transactions, transaction_counter,
                           snapshots, now, appended, registered, recorded>>
       ELSE LET source_url == caller.source_url
                metadata == caller.metadata
                timestamp == now
                data_json == json_dumps(data)
                data_hash == data_hash_of(data_json)
                merkle_result == add_leaf_result(merkle_tree, data_json)
                tx_data == tx_data_of(source_url, data_hash, merkle_result, metadata)
                rec == record_transaction(transactions, transaction_counter, tx_data, t2)
                snapshot_id == snapshot_id_of(source_url, timestamp)
                result == [snapshot_id |-> snapshot_id,
                           data_hash |-> data_hash,
                           tx_hash |-> rec.tx_id,
                           merkle_root |-> merkle_result.root,
                           timestamp |-> isoformat(timestamp),
                           verification_url |-> [prefix |-> "/verify/",
                                                 tx_hash |-> rec.tx_id]]
            IN  /\ merkle_tree' = add_leaf_tree(merkle_tree, data_json)
                /\ transactions' = rec.transactions
                /\ transaction_counter' = rec.transaction_counter
                /\ snapshots' = snapshots_set(snapshots, snapshot_id,
                        snapshot_of(data_hash, rec.tx_id, timestamp, source_url,
                                    merkle_result))
                /\ now' = t2
                /\ ret' = [op |-> "register", data |-> data, result |-> result]
                /\ appended' = Append(appended,
                        [data |-> data_json, result |-> merkle_result])
                /\ registered' = Append(registered,
                        [tx_hash |-> rec.tx_id, data |-> data,
                         source_url |-> source_url, metadata |-> metadata,
                         snapshot_id |-> snapshot_id, result |-> result])
                /\ recorded' = Append(recorded, [entry |-> tx_data, tx_id |-> rec.tx_id])
    /\ UNCHANGED <<pc, loc, peer>>

RegisterDataSnapshot ==
    \E caller \in Callers, data \in Payloads, t2 \in {now, now + 1} :
        /\ transaction_counter < MaxTx
        /\ t2 <= MaxTime
        /\ register_data_snapshot(caller, data, t2)

\* record_transaction(transaction_data) called on the ledger directly.
RecordTransaction ==
    \E transaction_data \in DirectEntries :
        /\ transaction_counter < MaxTx
        /\ LET rec == record_transaction(transactions, transaction_counter,
                                         transaction_data, now)
           IN  /\ transactions' = rec.transactions
               /\ transaction_counter' = rec.transaction_counter
               /\ ret' = [op |-> "record", result |-> rec.tx_id]
               /\ recorded' = Append(recorded, [entry |-> transaction_data,
                                                tx_id |-> rec.tx_id])
        /\ UNCHANGED <<merkle_tree, snapshots, now, appended, registered, pc, loc, peer>>

GetTransaction ==
    \E tx_id \in TxHashes :
        /\ ret' = [op |-> "get", tx_id |-> tx_id,
                   result |-> get_transaction(transactions, tx_id)]
        /\ UNCHANGED <<merkle_tree, transactions, transaction_counter, snapshots, now,
                       appended, registered, pc, loc, peer, recorded>>

ListTransactions ==
    \E limit \in {1, 2}, source_filter \in {NoFilter, filter_of(<<"1">>)} :
        /\ ret' = [op |-> "list", limit |-> limit, source_filter |-> source_filter,
                   result |-> list_transactions(transactions, limit, source_filter)]
        /\ UNCHANGED <<merkle_tree, transactions, transaction_counter, snapshots, now,
                       appended, registered, pc, loc, peer, recorded>>

\* A faulty variant of VerifyDataIntegrity: the verified payload is added to
\* the tree as a leaf.
VerifyDataIntegrity_adding_leaf ==
    \E data \in Payloads, tx_hash \in TxHashes :
        /\ ret' = [op |-> "verify", data |-> data, tx_hash |-> tx_hash,
                   result |-> verify_data_integrity(merkle_tree, transactions,
                                                    data, tx_hash)]
        /\ merkle_tree' = IF CanSerialize(data)
                          THEN add_leaf_tree(merkle_tree, json_dumps(data))
                          ELSE merkle_tree
        /\ UNCHANGED <<transactions, transaction_counter, snapshots, now,
                       appended, registered, pc, loc, peer, recorded>>

VerifyDataIntegrity ==
    \E data \in Payloads, tx_hash \in TxHashes :
        /\ ret' = [op |-> "verify", data |-> data, tx_hash |-> tx_hash,
                   result |-> verify_data_integrity(merkle_tree, transactions,
                                                    data, tx_hash)]
        /\ UNCHANGED <<merkle_tree, transactions, transaction_counter, snapshots, now,
                       appended, registered, pc, loc, peer, recorded>>

GenerateIntegrityReport ==
    \E snapshot_ids \in SeqsUpTo(SnapshotIds, MaxIds) :
        /\ ret' = [op |-> "report", snapshot_ids |-> snapshot_ids,
                   result |-> generate_integrity_report(merkle_tree, transactions,
                                                        snapshots, snapshot_ids, now)]
        /\ UNCHANGED <<merkle_tree, transactions, transaction_counter, snapshots, now,
                       appended, registered, pc, loc, peer, recorded>>

ExportVerificationCertificate ==
    \E tx_hash \in TxHashes :
        /\ ret' = [op |-> "certificate", tx_hash |-> tx_hash,
                   result |-> export_verification_certificate(transactions, tx_hash, now)]
        /\ UNCHANGED <<merkle_tree, transactions, transaction_counter, snapshots, now,
                       appended, registered, pc, loc, peer, recorded>>

Next ==
    \/ Tick
    \/ RegisterDataSnapshot
    \/ RecordTransaction
    \/ GetTransaction
    \/ ListTransactions
    \/ VerifyDataIntegrity
    \/ GenerateIntegrityReport
    \/ ExportVerificationCertificate
    \/ TreeGetRoot

Spec == InitCommon /\ [][Next]_vars

(***************************************************************************)
(* Specification of one manager given payloads of every shape: nested      *)
(* dicts, lists, values of types json does not know, reference cycles.     *)
(* Time passes only between the two clock readings of a registration.      *)
(***************************************************************************)
CanonCallers == {[source_url |-> <<"u", "1">>, metadata |-> NoneValue]}
CanonTxHashes == {tx_id_of(c) : c \in 1..MaxCanonTx}

CanonRegisterDataSnapshot ==
    \E caller \in CanonCallers, data \in CanonPayloads, t2 \in {now, now + 1} :
        /\ transaction_counter < MaxCanonTx
        /\ t2 <= MaxTime
        /\ register_data_snapshot(caller, data, t2)

CanonVerifyDataIntegrity ==
    \E data \in CanonPayloads, tx_hash \in CanonTxHashes :
        /\ ret' = [op |-> "verify", data |-> data, tx_hash |-> tx_hash,
                   result |-> verify_data_integrity(merkle_tree, transactions,
                                                    data, tx_hash)]
        /\ UNCHANGED <<merkle_tree, transactions, transaction_counter, snapshots, now,
                       appended, registered, pc, loc, peer, recorded>>

CanonNext ==
    \/ CanonRegisterDataSnapshot
    \/ CanonVerifyDataIntegrity

SpecCanon == InitCommon /\ [][CanonNext]_vars

(***************************************************************************)
(* Specification of two managers built on one ledger                       *)
(* (DataIntegrityManager(blockchain_client=ledger), line 310): each has    *)
(* its own Merkle tree and snapshots; transactions and the counter are     *)
(* shared.  Time passes only between the two clock readings of a           *)
(* registration.                                                           *)
(***************************************************************************)
SharedPayloads == {EmptyDict, DictA1, Cyclic}
SharedTxHashes == {tx_id_of(c) : c \in 1..MaxSharedTx}

\* register_data_snapshot run by the second manager.
peer_register_data_snapshot(caller, data, t2) ==
    /\ IF ~CanSerialize(data)
       THEN /\ ret' = [op |-> "peer_register", data |-> data, raised |-> "ValueError"]
            /\ UNCHANGED <<transactions, transaction_counter, now, peer, recorded>>
       ELSE LET source_url == caller.source_url
                metadata == caller.metadata
                timestamp == now
                data_json == json_dumps(data)
                data_hash == data_hash_of(data_json)
                merkle_result == add_leaf_result(peer.merkle_tree, data_json)
                tx_data == tx_data_of(source_url, data_hash, merkle_result, metadata)
                rec == record_transaction(transactions, transaction_counter, tx_data, t2)
                snapshot_id == snapshot_id_of(source_url, timestamp)
                result == [snapshot_id |-> snapshot_id,
                           data_hash |-> data_hash,
                           tx_hash |-> rec.tx_id,
                           merkle_root |-> merkle_result.root,
                           timestamp |-> isoformat(timestamp),
                           verification_url |-> [prefix |-> "/verify/",
                                                 tx_hash |-> rec.tx_id]]
            IN  /\ peer' = [merkle_tree |-> add_leaf_tree(peer.merkle_tree, data_json),
                            snapshots |-> snapshots_set(peer.snapshots, snapshot_id,
                                snapshot_of(data_hash, rec.tx_id, timestamp, source_url,
                                            merkle_result))]
                /\ transactions' = rec.transactions
                /\ transaction_counter' = rec.transaction_counter
                /\ now' = t2
                /\ ret' = [op |-> "peer_register", data |-> data, result |-> result]
                /\ recorded' = Append(recorded, [entry |-> tx_data, tx_id |-> rec.tx_id])
    /\ UNCHANGED <<merkle_tree, snapshots, appended, registered, pc, loc>>

SharedRegisterDataSnapshot ==
    \E caller \in CanonCallers, data \in SharedPayloads, t2 \in {now, now + 1} :
        /\ transaction_counter < MaxSharedTx
        /\ t2 <= MaxTime
        /\ register_data_snapshot(caller, data, t2)

PeerRegisterDataSnapshot ==
    \E caller \in CanonCallers, data \in SharedPayloads, t2 \in {now, now + 1} :
        /\ transaction_counter < MaxSharedTx
        /\ t2 <= MaxTime
        /\ peer_register_data_snapshot(caller, data, t2)

\* verify_data_integrity run by the second manager.
PeerVerifyDataIntegrity ==
    \E data \in SharedPayloads, tx_hash \in SharedTxHashes :
        /\ ret' = [op |-> "peer_verify", data |-> data, tx_hash |-> tx_hash,
                   result |-> verify_data_integrity(peer.merkle_tree, transactions,
                                                    data, tx_hash)]
        /\ UNCHANGED <<merkle_tree, transactions, transaction_counter, snapshots, now,
                       appended, registered, pc, loc, peer, recorded>>

SharedNext ==
    \/ SharedRegisterDataSnapshot
    \/ PeerRegisterDataSnapshot
    \/ PeerVerifyDataIntegrity

SpecShared == InitCommon /\ [][SharedNext]_vars

(***************************************************************************)
(* Specification of the ledger used on its own: MockBlockchain called by   *)
(* clients of two sources, over a longer stretch of time.                  *)
(***************************************************************************)
LedgerTxHashes == {tx_id_of(c) : c \in 1..(MaxLedgerTx + 1)}

\* The transaction_data dicts the clients hand to record_transaction.
\* The first has no 'metadata' key; the second carries metadata and a proof.
LedgerEntries ==
    {[source |-> <<"u", "1">>,
      data_hash |-> data_hash_of(json_dumps(DictA1)),
      merkle_root |-> data_hash_of(json_dumps(DictA1)),
      merkle_proof |-> <<>>],
     [source |-> <<"u", "2">>,
      data_hash |-> data_hash_of(json_dumps(EmptyDict)),
      merkle_root |-> hex(sha256(concat(sha256(encode(json_dumps(EmptyDict))),
                                        sha256(encode(json_dumps(EmptyDict)))))),
      merkle_proof |-> <<[hash |-> data_hash_of(json_dumps(EmptyDict)),
                          position |-> "right"]>>,
      metadata |-> DictA1]}

\* The limit arguments (an int, not validated by the code).
LedgerLimits == (0 - 1)..MaxLedgerTx

\* The source_filter arguments: None, '', '1', 'u2'.
LedgerFilters == {NoFilter, filter_of(<<>>), filter_of(<<"1">>), filter_of(<<"u", "2">>)}

LedgerTick ==
    /\ now < MaxLedgerTime
    /\ now' = now + 1
    /\ UNCHANGED <<merkle_tree, transactions, transaction_counter, snapshots, ret,
                   appended, registered, pc, loc, peer, recorded>>

LedgerRecordTransaction ==
    \E transaction_data \in LedgerEntries :
        /\ transaction_counter < MaxLedgerTx
        /\ LET rec == record_transaction(transactions, transaction_counter,
                                         transaction_data, now)
           IN  /\ transactions' = rec.transactions
               /\ transaction_counter' = rec.transaction_counter
               /\ ret' = [op |-> "record", result |-> rec.tx_id]
               /\ recorded' = Append(recorded, [entry |-> transaction_data,
                                                tx_id |-> rec.tx_id])
        /\ UNCHANGED <<merkle_tree, snapshots, now, appended, registered, pc, loc, peer>>

LedgerGetTransaction ==
    \E tx_id \in LedgerTxHashes :
        /\ ret' = [op |-> "get", tx_id |-> tx_id,
                   result |-> get_transaction(transactions, tx_id)]
        /\ UNCHANGED <<merkle_tree, transactions, transaction_counter, snapshots, now,
                       appended, registered, pc, loc, peer, recorded>>

LedgerListTransactions ==
    \E limit \in LedgerLimits, source_filter \in LedgerFilters :
        /\ ret' = [op |-> "list", limit |-> limit, source_filter |-> source_filter,
                   result |-> list_transactions(transactions, limit, source_filter)]
        /\ UNCHANGED <<merkle_tree, transactions, transaction_counter, snapshots, now,
                       appended, registered, pc, loc, peer, recorded>>

LedgerNext ==
    \/ LedgerTick
    \/ LedgerRecordTransaction
    \/ LedgerGetTransaction
    \/ LedgerListTransactions

SpecLedger == InitCommon /\ [][LedgerNext]_vars

(***************************************************************************)
(* Specification of record_transaction called by NThreads threads at once  *)
(* on one MockBlockchain.  The method takes no lock; a thread switch may    *)
(* fall between the read and the write of `self.transaction_counter += 1`, *)
(* before the counter is read again for the id (line 236) and before the   *)
(* insertion (line 248).                                                   *)
(***************************************************************************)
Threads == 1..NThreads

\* The entries the concurrent callers record.
ConcurrentEntries ==
    {[source |-> <<"u", "1">>,
      data_hash |-> data_hash_of(json_dumps(p)),
      merkle_root |-> data_hash_of(json_dumps(p)),
      merkle_proof |-> <<>>] : p \in {EmptyDict, DictA1}}

InitLedgerConc ==
    /\ InitState
    /\ pc = [t \in Threads |-> "load_counter"]
    /\ loc \in [Threads -> [transaction_data : ConcurrentEntries]]

\* self.transaction_counter += 1, the read
RecordLoadCounter(t) ==
    /\ pc[t] = "load_counter"
    /\ loc' = [loc EXCEPT ![t] = [transaction_data |-> loc[t].transaction_data,
                                  loaded |-> transaction_counter]]
    /\ pc' = [pc EXCEPT ![t] = "store_counter"]
    /\ UNCHANGED <<merkle_tree, transactions, transaction_counter, snapshots, now,
                   ret, appended, registered, peer, recorded>>

\* self.transaction_counter += 1, the write
RecordStoreCounter(t) ==
    /\ pc[t] = "store_counter"
    /\ transaction_counter' = loc[t].loaded + 1
    /\ pc' = [pc EXCEPT ![t] = "derive_id"]
    /\ UNCHANGED <<merkle_tree, transactions, snapshots, now, ret, appended,
                   registered, loc, peer, recorded>>

\* tx_id = f"0x{sha256(str(self.transaction_counter))...}" (line 236)
RecordDeriveId(t) ==
    /\ pc[t] = "derive_id"
    /\ loc' = [loc EXCEPT ![t] = [transaction_data |-> loc[t].transaction_data,
                                  loaded |-> loc[t].loaded,
                                  tx_id |-> tx_id_of(transaction_counter)]]
    /\ pc' = [pc EXCEPT ![t] = "insert"]
    /\ UNCHANGED <<merkle_tree, transactions, transaction_counter, snapshots, now,
                   ret, appended, registered, peer, recorded>>

\* The transaction is built and inserted, and its id returned (lines 238-249).
RecordInsert(t) ==
    /\ pc[t] = "insert"
    /\ transactions' = dict_set(transactions, loc[t].tx_id,
            new_transaction(loc[t].tx_id, now, loc[t].transaction_data))
    /\ pc' = [pc EXCEPT ![t] = "done"]
    /\ recorded' = Append(recorded, [entry |-> loc[t].transaction_data,
                                     tx_id |-> loc[t].tx_id])
    /\ UNCHANGED <<merkle_tree, transaction_counter, snapshots, now, ret, appended,
                   registered, loc, peer>>

LedgerConcNext ==
    \/ Tick
    \/ \E t \in Threads :
        \/ RecordLoadCounter(t)
        \/ RecordStoreCounter(t)
        \/ RecordDeriveId(t)
        \/ RecordInsert(t)

SpecLedgerConc == InitLedgerConc /\ [][LedgerConcNext]_vars

(***************************************************************************)
(* Specification of get_transaction and list_transactions called by other  *)
(* threads while the NThreads record_transaction calls above are running.  *)
(* A reader takes no lock either; self.transactions.get(tx_id) (line 261)   *)
(* and list(self.transactions.values()) (line 279) each read the dict in    *)
(* one step, and the transaction objects they find are never assigned to    *)
(* after their insertion.                                                  *)
(***************************************************************************)
ConcTxHashes == {tx_id_of(c) : c \in 1..NThreads}

\* get_transaction(tx_id) by a reader thread; `returned` counts the
\* record_transaction calls that had returned when the call started.
ConcGetTransaction ==
    \E tx_id \in ConcTxHashes :
        /\ ret' = [op |-> "get", tx_id |-> tx_id,
                   returned |-> Len(recorded),
                   in_flight |-> \E t \in Threads : pc[t] # "done",
                   result |-> get_transaction(transactions, tx_id)]
        /\ UNCHANGED <<merkle_tree, transactions, transaction_counter, snapshots, now,
                       appended, registered, pc, loc, peer, recorded>>

\* list_transactions(limit) by a reader thread.
ConcListTransactions ==
    \E limit \in {1, NThreads} :
        /\ ret' = [op |-> "list", limit |-> limit, source_filter |-> NoFilter,
                   in_flight |-> \E t \in Threads : pc[t] # "done",
                   result |-> list_transactions(transactions, limit, NoFilter)]
        /\ UNCHANGED <<merkle_tree, transactions, transaction_counter, snapshots, now,
                       appended, registered, pc, loc, peer, recorded>>

LedgerReadNext ==
    \/ LedgerConcNext
    \/ ConcGetTransaction
    \/ ConcListTransactions

SpecLedgerRead == InitLedgerConc /\ [][LedgerReadNext]_vars

(***************************************************************************)
(* Specification of add_leaf called by NThreads threads at once on one     *)
(* MerkleTree that already holds up to MaxPre leaves.  The method takes no  *)
(* lock; each step below reads or writes the shared fields once.           *)
(***************************************************************************)
RECURSIVE sequential_tree(_)
sequential_tree(datas) ==
    IF datas = <<>> THEN EmptyTree
    ELSE add_leaf_tree(sequential_tree(SubSeq(datas, 1, Len(datas) - 1)),
                       datas[Len(datas)])

InitTreeConc ==
    /\ InitState
    /\ \E datas \in SeqsUpTo(DataStrings, MaxPre) :
           merkle_tree = sequential_tree(datas)
    /\ pc = [t \in Threads |-> "append"]
    /\ loc \in [Threads -> [data : DataStrings]]

TreeConcFrame == UNCHANGED <<transactions, transaction_counter, snapshots, now, ret,
                             appended, registered, peer, recorded>>

\* leaf_hash = sha256(data); self.leaves.append(leaf_hash) (lines 50-51)
AddLeafAppend(t) ==
    /\ pc[t] = "append"
    /\ IF can_encode(loc[t].data)
       THEN /\ merkle_tree' = [merkle_tree EXCEPT
                                  !.leaves = Append(@, sha256(encode(loc[t].data)))]
            /\ loc' = [loc EXCEPT ![t] = [data |-> loc[t].data,
                                          leaf_hash |-> sha256(encode(loc[t].data))]]
            /\ pc' = [pc EXCEPT ![t] = "reset_tree"]
       ELSE /\ loc' = [loc EXCEPT ![t] = [data |-> loc[t].data,
                                          raised |-> "UnicodeEncodeError"]]
            /\ pc' = [pc EXCEPT ![t] = "done"]
            /\ UNCHANGED merkle_tree
    /\ TreeConcFrame

\* self.tree = [self.leaves[:]] (line 74)
AddLeafResetTree(t) ==
    /\ pc[t] = "reset_tree"
    /\ merkle_tree' = [merkle_tree EXCEPT !.tree = <<merkle_tree.leaves>>]
    /\ pc' = [pc EXCEPT ![t] = "copy_level"]
    /\ UNCHANGED loc
    /\ TreeConcFrame

\* current_level = self.leaves[:] (line 77)
AddLeafCopyLevel(t) ==
    /\ pc[t] = "copy_level"
    /\ loc' = [loc EXCEPT ![t] = [data |-> loc[t].data,
                                  leaf_hash |-> loc[t].leaf_hash,
                                  current_level |-> merkle_tree.leaves]]
    /\ pc' = [pc EXCEPT ![t] = "pair_level"]
    /\ UNCHANGED merkle_tree
    /\ TreeConcFrame

\* One iteration of the while loop (lines 79-98), or its exit.
AddLeafPairLevel(t) ==
    /\ pc[t] = "pair_level"
    /\ IF Len(loc[t].current_level) > 1
       THEN /\ merkle_tree' = [merkle_tree EXCEPT
                        !.tree = Append(@, next_level(loc[t].current_level))]
            /\ loc' = [loc EXCEPT ![t].current_level = next_level(@)]
            /\ UNCHANGED pc
       ELSE /\ pc' = [pc EXCEPT ![t] = "set_root"]
            /\ UNCHANGED <<merkle_tree, loc>>
    /\ TreeConcFrame

\* self.root = current_level[0] (line 101)
AddLeafSetRoot(t) ==
    /\ pc[t] = "set_root"
    /\ merkle_tree' = [merkle_tree EXCEPT !.root = loc[t].current_level[1]]
    /\ pc' = [pc EXCEPT ![t] = "proof"]
    /\ UNCHANGED loc
    /\ TreeConcFrame

\* Whether the loop of _generate_proof indexes only existing nodes; a level
\* shorter than the index raises IndexError (lines 127, 130, 134).
RECURSIVE proof_in_range(_, _, _)
proof_in_range(tree, level, current_index) ==
    IF level >= Len(tree) - 1 THEN TRUE
    ELSE /\ current_index < Len(tree[level + 1])
         /\ proof_in_range(tree, level + 1, current_index \div 2)

\* proof = self._generate_proof(len(self.leaves) - 1) (line 57)
AddLeafProof(t) ==
    /\ pc[t] = "proof"
    /\ LET leaf_index == Len(merkle_tree.leaves) - 1
       IN  IF proof_in_range(merkle_tree.tree, 0, leaf_index)
           THEN /\ loc' = [loc EXCEPT ![t] =
                        [data |-> loc[t].data,
                         leaf_hash |-> loc[t].leaf_hash,
                         proof |-> generate_proof(merkle_tree, leaf_index)]]
                /\ pc' = [pc EXCEPT ![t] = "return"]
           ELSE /\ loc' = [loc EXCEPT ![t] =
                        [data |-> loc[t].data, raised |-> "IndexError"]]
                /\ pc' = [pc EXCEPT ![t] = "done"]
    /\ UNCHANGED merkle_tree
    /\ TreeConcFrame

\* The dictionary returned (lines 59-64).
AddLeafReturn(t) ==
    /\ pc[t] = "return"
    /\ loc' = [loc EXCEPT ![t] =
                  [data |-> loc[t].data,
                   result |-> [leaf_hash |-> hex(loc[t].leaf_hash),
                               leaf_index |-> Len(merkle_tree.leaves) - 1,
                               proof |-> loc[t].proof,
                               root |-> root_hex(merkle_tree)]]]
    /\ pc' = [pc EXCEPT ![t] = "done"]
    /\ UNCHANGED merkle_tree
    /\ TreeConcFrame

TreeConcNext ==
    \E t \in Threads :
        \/ AddLeafAppend(t)
        \/ AddLeafResetTree(t)
        \/ AddLeafCopyLevel(t)
        \/ AddLeafPairLevel(t)
        \/ AddLeafSetRoot(t)
        \/ AddLeafProof(t)
        \/ AddLeafReturn(t)

SpecTreeConc == InitTreeConc /\ [][TreeConcNext]_vars

(***************************************************************************)
(* Specification of verify_proof called while another thread is inside     *)
(* add_leaf on the same MerkleTree: the writer runs add_leaf step by step, *)
(* one call after the other, and verify_proof may run between any two of   *)
(* its steps.                                                              *)
(***************************************************************************)
Writer == 1

\* The arguments given to verify_proof: a leaf data string, and the proof and
\* root some add_leaf call returned.
ProofInputs ==
    {[leaf_data |-> d, proof |-> r.proof, root |-> r.root] :
        d \in DataStrings,
        r \in {add_leaf_result(sequential_tree(datas), x) :
                  datas \in SeqsUpTo(DataStrings, 1), x \in DataStrings}}

\* The same data and proofs verified against a root of None, the root of a
\* tree with no leaves; and a str UTF-8 cannot encode as leaf_data.
NoneRootInputs ==
    {[leaf_data |-> input.leaf_data, proof |-> input.proof, root |-> NoneValue] :
        input \in ProofInputs}
    \cup {[leaf_data |-> LoneSurrogate, proof |-> <<>>, root |-> NoneValue]}

InitTreeVerify ==
    /\ InitState
    /\ pc = [t \in {Writer} |-> "done"]
    /\ loc = [t \in {Writer} |-> [idle |-> TRUE]]

\* The writer enters add_leaf(data).
AddLeafCall ==
    \E data \in DataStrings :
        /\ pc[Writer] = "done"
        /\ Len(merkle_tree.leaves) < MaxVerifyLeaves
        /\ pc' = [pc EXCEPT ![Writer] = "append"]
        /\ loc' = [loc EXCEPT ![Writer] = [data |-> data]]
        /\ UNCHANGED merkle_tree
        /\ TreeConcFrame

\* verify_proof(leaf_data, proof, root) run by another thread;
\* leaf_data.encode('utf-8') (line 165) raises on a str it cannot encode.
VerifyProof ==
    \E input \in ProofInputs \cup NoneRootInputs :
        /\ ret' = IF can_encode(input.leaf_data)
                  THEN [op |-> "verify_proof",
                        leaf_data |-> input.leaf_data, proof |-> input.proof,
                        root |-> input.root,
                        in_flight |-> pc[Writer] # "done",
                        result |-> verify_proof_on(merkle_tree, input.leaf_data,
                                                   input.proof, input.root)]
                  ELSE [op |-> "verify_proof",
                        leaf_data |-> input.leaf_data, proof |-> input.proof,
                        root |-> input.root,
                        in_flight |-> pc[Writer] # "done",
                        raised |-> "UnicodeEncodeError"]
        /\ UNCHANGED <<merkle_tree, transactions, transaction_counter, snapshots, now,
                       appended, registered, pc, loc, peer, recorded>>

TreeVerifyNext ==
    \/ AddLeafCall
    \/ AddLeafAppend(Writer)
    \/ AddLeafResetTree(Writer)
    \/ AddLeafCopyLevel(Writer)
    \/ AddLeafPairLevel(Writer)
    \/ AddLeafSetRoot(Writer)
    \/ AddLeafProof(Writer)
    \/ AddLeafReturn(Writer)
    \/ VerifyProof
    \/ TreeGetRoot

SpecTreeVerify == InitTreeVerify /\ [][TreeVerifyNext]_vars

(***************************************************************************)
(* Specification of add_leaf run step by step by one thread, call after    *)
(* call, on a tree of up to MaxLiveLeaves leaves, with any str as data.    *)
(* A thread inside add_leaf keeps running: its steps are weakly fair.      *)
(***************************************************************************)
\* The data arguments: two JSON texts and a str UTF-8 cannot encode.
LiveStrings == {json_dumps(EmptyDict), json_dumps(DictA1), LoneSurrogate}

\* The thread enters add_leaf(data).
LiveAddLeafCall ==
    \E data \in LiveStrings :
        /\ pc[Writer] = "done"
        /\ Len(merkle_tree.leaves) < MaxLiveLeaves
        /\ pc' = [pc EXCEPT ![Writer] = "append"]
        /\ loc' = [loc EXCEPT ![Writer] = [data |-> data]]
        /\ UNCHANGED merkle_tree
        /\ TreeConcFrame

\* The steps of the call in progress.
LiveAddLeafStep ==
    \/ AddLeafAppend(Writer)
    \/ AddLeafResetTree(Writer)
    \/ AddLeafCopyLevel(Writer)
    \/ AddLeafPairLevel(Writer)
    \/ AddLeafSetRoot(Writer)
    \/ AddLeafProof(Writer)
    \/ AddLeafReturn(Writer)

TreeLiveNext == LiveAddLeafCall \/ LiveAddLeafStep

SpecTreeLive == InitTreeVerify /\ [][TreeLiveNext]_vars /\ WF_vars(LiveAddLeafStep)

(***************************************************************************)
(* Properties                                                              *)
(***************************************************************************)
IsVerify == ret.op = "verify"
IsReport == ret.op = "report"

\* The registrations that returned tx_hash.
RegistrationsOf(tx_hash) == {i \in 1..Len(registered) : registered[i].tx_hash = tx_hash}

\* C1: every leaf ever appended verifies with the proof and root its own
\* add_leaf call returned, in every later state of the tree.
C1_RoundTrip ==
    \A i \in 1..Len(appended) :
        verify_proof(appended[i].data, appended[i].result.proof, appended[i].result.root)

\* The third leaf (paired with itself when appended) followed by a fourth one.
C1_Witness ==
    /\ Len(appended) = 4
    /\ Len(appended[3].result.proof) = 2
    /\ appended[3].result.proof[1].hash = appended[3].result.leaf_hash
    /\ appended[4].result.root # appended[3].result.root
    /\ verify_proof(appended[3].data, appended[3].result.proof, appended[3].result.root)

\* C2: verifying, against a registered transaction, a payload whose canonical
\* serialization differs from the registered one gives hashes_match = false,
\* merkle_verified = false and verified = false.
C2_TamperDetected ==
    IsVerify =>
        \A i \in RegistrationsOf(ret.tx_hash) :
            (CanSerialize(ret.data) /\ json_dumps(ret.data) # json_dumps(registered[i].data))
            => /\ ret.result.hashes_match = FALSE
               /\ ret.result.merkle_verified = FALSE
               /\ ret.result.verified = FALSE

C2_Witness ==
    /\ IsVerify
    /\ \E i \in RegistrationsOf(ret.tx_hash) :
            /\ CanSerialize(ret.data)
            /\ json_dumps(ret.data) # json_dumps(registered[i].data)
            /\ dict_get(transactions, ret.tx_hash).merkle_root = root_hex(merkle_tree)
    /\ ret.result.verified = FALSE

\* C3: verifying the registered payload against its own transaction gives
\* verified = true (so merkle_verified = true) at every later point, whatever
\* was registered in between.
C3_VerifiesLater ==
    IsVerify =>
        \A i \in RegistrationsOf(ret.tx_hash) :
            ret.data = registered[i].data
            => /\ ret.result.verified = TRUE
               /\ ret.result.merkle_verified = TRUE

\* The first registration verified after a second one changed the live root.
C3_Witness ==
    /\ IsVerify
    /\ Len(registered) = 2
    /\ ret.tx_hash = registered[1].tx_hash
    /\ ret.data = registered[1].data
    /\ ret.result.verified = TRUE
    /\ root_hex(merkle_tree) # dict_get(transactions, ret.tx_hash).merkle_root

\* C6: the ledger is append-only: every step keeps every stored transaction
\* at its place with all its fields, and the ledger never shrinks.
C6_AppendOnly ==
    [][/\ Len(transactions') >= Len(transactions)
       /\ \A i \in 1..Len(transactions) : transactions'[i] = transactions[i]]_vars

\* A transaction recorded into a ledger that already held one, both kept.
C6_Witness ==
    /\ ret.op \in {"record", "register"}
    /\ "result" \in DOMAIN ret
    /\ Len(transactions) = 2
    /\ transactions[1].tx_id # transactions[2].tx_id
    /\ transactions[1].data_hash = transactions[2].data_hash

\* C7: verify_data_integrity with a tx_hash unknown to the ledger returns
\* verified = false with a reason, raises nothing whatever the payload, and
\* changes neither tree, ledger nor snapshots.
C7_UnknownTransaction ==
    /\ [](IsVerify /\ ~has_key(transactions, ret.tx_hash)
            => /\ "raised" \notin DOMAIN ret.result
               /\ ret.result.verified = FALSE
               /\ "reason" \in DOMAIN ret.result)
    /\ [][(ret'.op = "verify" /\ ~has_key(transactions, ret'.tx_hash))
            => UNCHANGED <<merkle_tree, transactions, transaction_counter, snapshots>>]_vars

\* An unserializable payload verified against an unknown tx_hash.
C7_Witness ==
    /\ IsVerify
    /\ ~has_key(transactions, ret.tx_hash)
    /\ ~CanSerialize(ret.data)
    /\ ret.result.verified = FALSE

\* The statuses a report gives the listed ids.
ReportStatuses == [i \in 1..Len(ret.result.verification_results) |->
                      ret.result.verification_results[i].status]

\* C8: a report counts a listed snapshot as verified when the payload it was
\* registered with still verifies against its transaction, and as failed when
\* it does not.
C8_ReportCountsVerifiable ==
    IsReport =>
        \A i \in 1..Len(ret.snapshot_ids) :
            ret.snapshot_ids[i] \in DOMAIN snapshots
            => LET tx_hash == snapshots[ret.snapshot_ids[i]].tx_hash
               IN  \A j \in RegistrationsOf(tx_hash) :
                       ReportStatuses[i] =
                           IF verify_data_integrity(merkle_tree, transactions,
                                                    registered[j].data, tx_hash).verified
                           THEN "verified" ELSE "failed"

\* C9: a report has one entry per listed id, in order, and its counters add up:
\* snapshots_checked is the list length, not_found the number of listed ids
\* absent from the snapshot map.
C9_ReportProcessesEveryId ==
    IsReport =>
        LET r == ret.result
            ids == ret.snapshot_ids
        IN  /\ Len(r.verification_results) = Len(ids)
            /\ \A i \in 1..Len(ids) : r.verification_results[i].snapshot_id = ids[i]
            /\ r.snapshots_checked = Len(ids)
            /\ r.summary.not_found =
                   Cardinality({i \in 1..Len(ids) : ids[i] \notin DOMAIN snapshots})
            /\ r.summary.verified + r.summary.failed + r.summary.not_found
                   = r.snapshots_checked

\* A report over an unknown id followed by a stored one.
C9_Witness ==
    /\ IsReport
    /\ Len(ret.snapshot_ids) = 2
    /\ ret.snapshot_ids[1] \notin DOMAIN snapshots
    /\ ret.snapshot_ids[2] \in DOMAIN snapshots
    /\ ret.result.summary.not_found = 1

\* C10: integrity_score is verified / (verified + failed) * 100, or 0 when that
\* denominator is 0; it lies in [0, 100] and is 100 exactly when failed = 0 and
\* verified > 0.
C10_IntegrityScore ==
    IsReport =>
        LET s == ret.result.summary
            score == s.integrity_score
        IN  /\ score.den > 0
            /\ IF s.verified + s.failed > 0
               THEN score.num * (s.verified + s.failed) = s.verified * 100 * score.den
               ELSE score.num = 0
            /\ 0 <= score.num /\ score.num <= 100 * score.den
            /\ (score.num = 100 * score.den) <=> (s.failed = 0 /\ s.verified > 0)

\* A report of one verified and one unknown id, scoring 100.
C10_Witness ==
    /\ IsReport
    /\ ret.result.summary.verified = 1
    /\ ret.result.summary.not_found = 1
    /\ ret.result.summary.integrity_score.num = 100 * ret.result.summary.integrity_score.den

AllDone == \A t \in Threads : pc[t] = "done"

\* C4: concurrent record_transaction calls return pairwise distinct ids and,
\* once all have returned, the ledger holds one transaction per call.
C4_ConcurrentRecord ==
    AllDone =>
        /\ \A t, u \in Threads : t # u => loc[t].tx_id # loc[u].tx_id
        /\ Len(transactions) = NThreads
        /\ \A t \in Threads : has_key(transactions, loc[t].tx_id)

\* C5: concurrent add_leaf calls behave as if run one after the other: none
\* fails, they return distinct leaf_index values, and each returns the hash of
\* its own data with a proof that verifies its own data against its own root.
C5_ConcurrentAddLeaf ==
    AllDone =>
        /\ \A t \in Threads :
            /\ "result" \in DOMAIN loc[t]
            /\ loc[t].result.leaf_hash = hex(sha256(encode(loc[t].data)))
            /\ verify_proof(loc[t].data, loc[t].result.proof, loc[t].result.root)
        /\ \A t, u \in Threads :
            (t # u /\ "result" \in DOMAIN loc[t] /\ "result" \in DOMAIN loc[u])
            => loc[t].result.leaf_index # loc[u].result.leaf_index

(***************************************************************************)
(* Properties of list_transactions (checked under SpecLedger).             *)
(***************************************************************************)
IsList == ret.op = "list"
Unfiltered == ~ret.source_filter.given \/ ret.source_filter.text = <<>>
Min(a, b) == IF a < b THEN a ELSE b

\* The stored transactions a list call with ret's filter is about.
Matching ==
    {i \in 1..Len(transactions) :
        Unfiltered \/ contains(ret.source_filter.text, transactions[i].source_url)}

\* The position in the ledger of the i-th returned transaction.
StoredIndex(i) ==
    CHOOSE j \in 1..Len(transactions) : transactions[j].tx_id = ret.result[i].tx_id

C12_AtMostLimit ==
    IsList =>
        /\ Len(ret.result) <= ret.limit
        /\ \A i \in 1..Len(ret.result) :
               \E j \in Matching : ret.result[i] = to_dict(transactions[j])
        /\ \A j \in Matching :
               (\A i \in 1..Len(ret.result) : ret.result[i] # to_dict(transactions[j])) =>
                   \A i \in 1..Len(ret.result) :
                       transactions[StoredIndex(i)].timestamp >= transactions[j].timestamp

(***************************************************************************)
(* Properties of the first registration and of the shape of the tree.      *)
(***************************************************************************)
\* C13: the first registration on a fresh manager returns a merkle_root equal
\* to its data_hash, and its transaction is recorded with an empty proof.
C13_FirstRegistration ==
    Len(registered) >= 1 =>
        LET first == registered[1]
        IN  /\ first.result.merkle_root = first.result.data_hash
            /\ dict_get(transactions, first.tx_hash).merkle_proof = <<>>
            /\ dict_get(transactions, first.tx_hash).merkle_root = first.result.data_hash

C13_Witness ==
    /\ Len(registered) = 1
    /\ ret.op = "register" /\ "result" \in DOMAIN ret
    /\ ret.result = registered[1].result
    /\ ret.result.merkle_root = hex(sha256(encode(json_dumps(ret.data))))
    /\ get_transaction(transactions, ret.result.tx_hash).merkle_proof = <<>>

\* C14: a tree of exactly one leaf L has root Hash(L), and the add_leaf call
\* that made it returned index 0 and an empty proof.
C14_SingleLeaf ==
    Len(merkle_tree.leaves) = 1 =>
        /\ merkle_tree.root = sha256(encode(appended[1].data))
        /\ appended[1].result.leaf_index = 0
        /\ appended[1].result.proof = <<>>
        /\ appended[1].result.root = hex(sha256(encode(appended[1].data)))

C14_Witness ==
    /\ Len(merkle_tree.leaves) = 1
    /\ ret.op = "add_leaf"
    /\ ret.result.proof = <<>>
    /\ ret.result.root = hex(sha256(encode(ret.data)))

\* The reference construction: adjacent nodes are paired from the left, and
\* an unmatched last node is paired with itself.
RECURSIVE reference_pairs(_)
reference_pairs(nodes) ==
    IF nodes = <<>> THEN <<>>
    ELSE IF Len(nodes) = 1
         THEN <<sha256(concat(nodes[1], nodes[1]))>>
         ELSE <<sha256(concat(nodes[1], nodes[2]))>> \o reference_pairs(Tail(Tail(nodes)))

RECURSIVE reference_root(_)
reference_root(nodes) ==
    IF Len(nodes) = 1 THEN nodes[1] ELSE reference_root(reference_pairs(nodes))

\* The digests of the data appended so far, in order.
AppendedDigests == [i \in 1..Len(appended) |-> sha256(encode(appended[i].data))]

\* C16: for every leaf count n >= 1 the root is the reference root over the n
\* leaf digests; for three leaves [a, b, c] it is
\* Hash(Hash(Hash(a)+Hash(b)) + Hash(Hash(c)+Hash(c))).
C16_ReferenceRoot ==
    Len(appended) >= 1 =>
        /\ merkle_tree.root = reference_root(AppendedDigests)
        /\ appended[Len(appended)].result.root = hex(reference_root(AppendedDigests))
        /\ Len(appended) = 3 =>
               LET a == sha256(encode(appended[1].data))
                   b == sha256(encode(appended[2].data))
                   c == sha256(encode(appended[3].data))
               IN  merkle_tree.root =
                       sha256(concat(sha256(concat(a, b)), sha256(concat(c, c))))

C16_Witness ==
    /\ Len(appended) = 3
    /\ appended[1].data # appended[2].data
    /\ appended[2].data # appended[3].data
    /\ appended[1].data # appended[3].data
    /\ merkle_tree.root =
           sha256(concat(sha256(concat(AppendedDigests[1], AppendedDigests[2])),
                         sha256(concat(AppendedDigests[3], AppendedDigests[3]))))

(***************************************************************************)
(* Properties of canonicalization (checked under SpecCanon).               *)
(***************************************************************************)
\* A payload the specification calls canonicalizable: no reference cycle and
\* no value of a type outside numbers, lists and string-keyed dicts.
RECURSIVE Canonicalizable(_)
Canonicalizable(data) ==
    CASE data.kind = "int" -> TRUE
      [] data.kind = "list" -> \A i \in 1..Len(data.elems) : Canonicalizable(data.elems[i])
      [] data.kind = "dict" -> \A i \in 1..Len(data.items) : Canonicalizable(data.items[i].v)
      [] OTHER -> FALSE

\* C17: a register_data_snapshot call with a payload that is not
\* canonicalizable raises, and leaves tree, ledger and snapshots unchanged.
C17_NotCanonicalizableFails ==
    [][(ret'.op = "register" /\ ret' # ret /\ ~Canonicalizable(ret'.data)) =>
           /\ "raised" \in DOMAIN ret'
           /\ UNCHANGED <<merkle_tree, transactions, transaction_counter, snapshots>>]_vars

\* The value a dict holds for key k.
ValueOf(items, k) == items[CHOOSE i \in 1..Len(items) : items[i].k = k].v

\* Two payloads with the same keys and values, whatever the order of the keys
\* of their dicts; lists are equal element by element, in order.
RECURSIVE LogicallyEqual(_, _)
LogicallyEqual(p, q) ==
    IF p.kind # q.kind THEN FALSE
    ELSE CASE p.kind = "int" -> p.n = q.n
           [] p.kind = "list" ->
                /\ Len(p.elems) = Len(q.elems)
                /\ \A i \in 1..Len(p.elems) : LogicallyEqual(p.elems[i], q.elems[i])
           [] p.kind = "dict" ->
                /\ {p.items[i].k : i \in 1..Len(p.items)} = {q.items[i].k : i \in 1..Len(q.items)}
                /\ \A i \in 1..Len(p.items) :
                       LogicallyEqual(p.items[i].v, ValueOf(q.items, p.items[i].k))
           [] OTHER -> p = q

\* C20: payloads equal up to the key order of their dicts, at any depth, are
\* registered with the same data_hash and verify against each other's
\* transaction; payloads that differ otherwise, such as by the order of the
\* elements of a list, get different hashes and do not verify.
C20_KeyOrderIndependent ==
    /\ \A i, j \in 1..Len(registered) :
           (Canonicalizable(registered[i].data) /\ Canonicalizable(registered[j].data)) =>
               ((registered[i].result.data_hash = registered[j].result.data_hash)
                    <=> LogicallyEqual(registered[i].data, registered[j].data))
    /\ (IsVerify /\ Canonicalizable(ret.data)) =>
           \A i \in RegistrationsOf(ret.tx_hash) :
               Canonicalizable(registered[i].data) =>
                   (ret.result.verified <=> LogicallyEqual(ret.data, registered[i].data))

\* The same payload was registered with its nested keys in both orders and got
\* one data_hash, and one order was verified against the transaction of the other.
C20_Witness ==
    /\ IsVerify /\ ret.data = NestedBA
    /\ \E i \in RegistrationsOf(ret.tx_hash) : registered[i].data = NestedAB
    /\ ret.result.verified
    /\ \E i, j \in 1..Len(registered) :
           /\ registered[i].data = NestedAB /\ registered[j].data = NestedBA
           /\ registered[i].result.data_hash = registered[j].result.data_hash

(***************************************************************************)
(* Properties of verify_proof (checked under SpecTreeVerify).              *)
(***************************************************************************)
\* The states a tree object can be in when nothing is in flight.
QuiescentTrees == {sequential_tree(datas) : datas \in SeqsUpTo(DataStrings, 2)}

\* C18: the result of verify_proof is the one it gives on any other tree
\* object, empty or not, whatever add_leaf is doing to the tree it is called
\* on, and the call changes no field of the tree.
C18_VerifyProofPure ==
    /\ []((ret.op = "verify_proof" /\ "result" \in DOMAIN ret) =>
            \A t \in QuiescentTrees :
                ret.result = verify_proof_on(t, ret.leaf_data, ret.proof, ret.root))
    /\ [][(ret'.op = "verify_proof" /\ ret' # ret) => UNCHANGED merkle_tree]_vars

\* verify_proof accepted a proof while add_leaf had reset the levels of the
\* tree and not yet rebuilt them.
C18_Witness ==
    /\ ret.op = "verify_proof" /\ "result" \in DOMAIN ret
    /\ ret.in_flight /\ ret.result
    /\ pc[Writer] = "copy_level"
    /\ Len(merkle_tree.leaves) = 2
    /\ merkle_tree.tree # build_tree(merkle_tree.leaves).tree

(***************************************************************************)
(* Properties of two managers on one ledger (checked under SpecShared).    *)
(***************************************************************************)
IsPeerVerify == ret.op = "peer_verify" /\ "result" \in DOMAIN ret

\* C19: verify_data_integrity on a second manager sharing the ledger gives,
\* for a transaction registered through the first manager, verified = true
\* for the registered payload and verified = false for a payload with another
\* canonical serialization, whatever the second manager's own tree holds.
C19_VerifiedOnPeer ==
    (IsPeerVerify /\ CanSerialize(ret.data)) =>
        \A i \in RegistrationsOf(ret.tx_hash) :
            /\ json_dumps(ret.data) = json_dumps(registered[i].data)
                   => /\ ret.result.verified
                      /\ ret.result.hashes_match
                      /\ ret.result.merkle_verified
            /\ json_dumps(ret.data) # json_dumps(registered[i].data)
                   => ~ret.result.verified

\* The second manager, whose own tree holds one leaf of another payload,
\* verified the payload the first manager registered.
C19_Witness ==
    /\ IsPeerVerify
    /\ \E i \in RegistrationsOf(ret.tx_hash) : registered[i].data = ret.data
    /\ ret.result.verified
    /\ Len(peer.merkle_tree.leaves) = 1
    /\ peer.merkle_tree.leaves[1] # sha256(encode(json_dumps(ret.data)))
    /\ peer.merkle_tree # merkle_tree

(***************************************************************************)
(* Properties of the snapshot map and of the certificate (checked under    *)
(* Spec).                                                                  *)
(***************************************************************************)
\* C21: a stored snapshot is never changed or replaced: after k successful
\* registrations the snapshot map holds k entries, and the entry of each
\* registration still points to the transaction of that registration.
C21_SnapshotsReadOnly ==
    /\ Cardinality(DOMAIN snapshots) = Len(registered)
    /\ \A i \in 1..Len(registered) :
           /\ registered[i].snapshot_id \in DOMAIN snapshots
           /\ snapshots[registered[i].snapshot_id].tx_hash = registered[i].tx_hash

IsCertificate == ret.op = "certificate"

\* The positions in the ledger of the transactions stored under tx_id.
StoredUnder(tx_id) == {i \in 1..Len(transactions) : transactions[i].tx_id = tx_id}

\* C22: export_verification_certificate returns the fixed 'not available'
\* message, and does not raise, for a tx_hash unknown to the ledger; for a
\* known one it returns a text with that tx_hash, the timestamp, source_url,
\* data_hash and merkle_root of the stored transaction and the url
\* .../verify/{tx_hash}; the call changes neither tree, ledger nor snapshots.
C22_Certificate ==
    /\ [](IsCertificate =>
            IF StoredUnder(ret.tx_hash) = {}
            THEN ret.result = [text |-> "Certificate not available - transaction not found"]
            ELSE \A i \in StoredUnder(ret.tx_hash) :
                    /\ "raised" \notin DOMAIN ret.result
                    /\ ret.result.transaction_id = ret.tx_hash
                    /\ ret.result.timestamp = isoformat(transactions[i].timestamp)
                    /\ ret.result.source = transactions[i].source_url
                    /\ ret.result.data_hash = transactions[i].data_hash
                    /\ ret.result.merkle_root = transactions[i].merkle_root
                    /\ ret.result.verification_url =
                           [prefix |-> "https://inspector-ia.com/verify/",
                            tx_hash |-> ret.tx_hash])
    /\ [][(ret'.op = "certificate" /\ ret' # ret) =>
              UNCHANGED <<merkle_tree, transactions, transaction_counter, snapshots>>]_vars

\* A certificate was exported for the second of two stored transactions.
C22_Witness ==
    /\ IsCertificate
    /\ Len(transactions) = 2
    /\ ret.tx_hash = transactions[2].tx_id
    /\ ret.result.text = "certificate"
    /\ ret.result.data_hash = transactions[2].data_hash

(***************************************************************************)
(* Properties of the levels and proofs of the tree (checked under          *)
(* SpecTree).                                                              *)
(***************************************************************************)
\* C23: after every add_leaf the stored levels satisfy the pairing invariant:
\* level 0 is the list of leaf digests, each level above has
\* ceil(len/2) nodes, each node is the hash of its two children or of its
\* only child twice, and the top level is the single root node.
C23_PairingInvariant ==
    Len(appended) >= 1 =>
        LET levels == merkle_tree.tree
        IN  /\ levels # <<>>
            /\ levels[1] = AppendedDigests
            /\ levels[1] = merkle_tree.leaves
            /\ \A k \in 1..(Len(levels) - 1) :
                   /\ 2 * Len(levels[k + 1]) \in {Len(levels[k]), Len(levels[k]) + 1}
                   /\ \A i \in 1..Len(levels[k + 1]) :
                          levels[k + 1][i] =
                              IF 2 * i <= Len(levels[k])
                              THEN sha256(concat(levels[k][2 * i - 1], levels[k][2 * i]))
                              ELSE sha256(concat(levels[k][2 * i - 1], levels[k][2 * i - 1]))
            /\ Len(levels[Len(levels)]) = 1
            /\ merkle_tree.root = levels[Len(levels)][1]

\* Five leaves: levels of 5, 3, 2 and 1 nodes, the third node of level 1
\* being the fifth leaf paired with itself.
C23_Witness ==
    /\ Len(appended) = 5
    /\ Len(merkle_tree.tree) = 4
    /\ Len(merkle_tree.tree[2]) = 3
    /\ merkle_tree.tree[2][3] = sha256(concat(AppendedDigests[5], AppendedDigests[5]))
    /\ merkle_tree.root = merkle_tree.tree[4][1]

\* ceil(log2 n) for n >= 1.
RECURSIVE CeilLog2(_)
CeilLog2(n) == IF n <= 1 THEN 0 ELSE 1 + CeilLog2((n + 1) \div 2)

\* C24: the proof returned by the add_leaf call that made the tree n leaves
\* long has ceil(log2 n) entries, one per level below the root, each with
\* position 'left' or 'right'.
C24_ProofLength ==
    /\ \A n \in 1..Len(appended) :
           /\ Len(appended[n].result.proof) = CeilLog2(n)
           /\ \A k \in 1..Len(appended[n].result.proof) :
                  appended[n].result.proof[k].position \in {"left", "right"}
    /\ Len(appended) >= 1 =>
           Len(appended[Len(appended)].result.proof) = Len(merkle_tree.tree) - 1

C24_Witness ==
    /\ Len(appended) = 5
    /\ ret.op = "add_leaf"
    /\ Len(ret.result.proof) = 3
    /\ Len(merkle_tree.tree) = 4
    /\ Len(appended[1].result.proof) = 0

\* The position at level k (from 0) of the node above leaf p.
RECURSIVE PositionAt(_, _)
PositionAt(p, k) == IF k = 0 THEN p ELSE PositionAt(p, k - 1) \div 2

\* C25: the proof entry generated at each level for position p is the node
\* at p+1 on the 'right' when p is even and p+1 exists, the node at p itself
\* on the 'right' when p is even and last, and the node at p-1 on the 'left'
\* when p is odd, the next position being p // 2; folding the first k entries
\* as verify_proof does gives the node of level k above the leaf.
C25_ProofSidedness ==
    (ret.op = "generate_proof" /\ ret.leaf_index < Len(merkle_tree.leaves)) =>
        LET levels == merkle_tree.tree
            proof == ret.result
        IN  /\ Len(proof) = Len(levels) - 1
            /\ \A k \in 0..(Len(proof) - 1) :
                   LET p == PositionAt(ret.leaf_index, k)
                       level == levels[k + 1]
                   IN  /\ (p % 2 = 0 /\ p + 1 < Len(level)) =>
                              proof[k + 1] = [hash |-> hex(level[p + 2]), position |-> "right"]
                       /\ (p % 2 = 0 /\ p + 1 = Len(level)) =>
                              proof[k + 1] = [hash |-> hex(level[p + 1]), position |-> "right"]
                       /\ (p % 2 = 1) =>
                              proof[k + 1] = [hash |-> hex(level[p]), position |-> "left"]
            /\ \A k \in 0..Len(proof) :
                   apply_proof(levels[1][ret.leaf_index + 1], SubSeq(proof, 1, k))
                       = levels[k + 1][PositionAt(ret.leaf_index, k) + 1]

\* The proof of the third of five leaves: a right sibling, a left sibling,
\* then a right sibling.
C25_Witness ==
    /\ ret.op = "generate_proof" /\ ret.leaf_index = 2
    /\ Len(merkle_tree.leaves) = 5
    /\ ret.result[1] = [hash |-> hex(merkle_tree.tree[1][4]), position |-> "right"]
    /\ ret.result[2] = [hash |-> hex(merkle_tree.tree[2][1]), position |-> "left"]
    /\ ret.result[3] = [hash |-> hex(merkle_tree.tree[3][2]), position |-> "right"]

\* C27: in a sequential run the k-th add_leaf (from 0) returns leaf_index k,
\* the hash of its data and the root get_root gives right after it, and the
\* leaf list only grows at its end.
C27_LeafIndex ==
    /\ [](/\ Len(merkle_tree.leaves) = Len(appended)
          /\ \A k \in 1..Len(appended) :
                 /\ appended[k].result.leaf_index = k - 1
                 /\ appended[k].result.leaf_hash = hex(sha256(encode(appended[k].data)))
                 /\ merkle_tree.leaves[k] = sha256(encode(appended[k].data))
          /\ ret.op = "add_leaf" => ret.result.root = get_root(merkle_tree)
          /\ (ret.op = "get_root" /\ Len(appended) >= 1) =>
                 ret.result = appended[Len(appended)].result.root)
    /\ [][/\ Len(merkle_tree.leaves') >= Len(merkle_tree.leaves)
          /\ SubSeq(merkle_tree.leaves', 1, Len(merkle_tree.leaves)) = merkle_tree.leaves]_vars

\* get_root was called right after the third add_leaf and gave its root.
C27_Witness ==
    /\ ret.op = "get_root"
    /\ Len(appended) = 3
    /\ appended[3].result.leaf_index = 2
    /\ ret.result = appended[3].result.root
    /\ appended[3].result.root # appended[2].result.root

(***************************************************************************)
(* Properties of the ledger's ids and of get_transaction (checked under    *)
(* SpecLedger).                                                            *)
(***************************************************************************)
\* C29: ids are minted from the counter and not from the entry: every
\* record_transaction adds one to the counter, which equals the number of
\* transactions recorded; the k-th call returns the id of k whatever the
\* entries were; the same entry recorded twice gets two distinct ids and two
\* stored transactions.
C29_CounterMintsIds ==
    /\ [](/\ transaction_counter = Len(recorded)
          /\ Len(transactions) = Len(recorded)
          /\ \A k \in 1..Len(recorded) :
                 /\ recorded[k].tx_id = tx_id_of(k)
                 /\ transactions[k].tx_id = recorded[k].tx_id
          /\ \A j, k \in 1..Len(recorded) :
                 j # k => recorded[j].tx_id # recorded[k].tx_id)
    /\ [][Len(recorded') = Len(recorded) + 1 =>
              transaction_counter' = transaction_counter + 1]_vars

\* The same entry recorded twice, then a different one.
C29_Witness ==
    /\ Len(recorded) = 3
    /\ recorded[1].entry = recorded[2].entry
    /\ recorded[3].entry # recorded[1].entry
    /\ recorded[1].tx_id # recorded[2].tx_id
    /\ Len(transactions) = 3
    /\ transaction_counter = 3

IsGet == ret.op = "get"

\* The record_transaction calls that returned tx_id.
ReturnedBy(tx_id) == {k \in 1..Len(recorded) : recorded[k].tx_id = tx_id}

\* C30: get_transaction(id) returns None exactly when no record_transaction
\* call returned id; otherwise the transaction it returns has the data_hash,
\* merkle_root, merkle_proof, source_url and metadata given to the call that
\* returned id.
C30_GetReturnsRecorded ==
    IsGet =>
        /\ (ret.result = NoneValue) <=> (ReturnedBy(ret.tx_id) = {})
        /\ \A k \in ReturnedBy(ret.tx_id) :
               LET entry == recorded[k].entry
               IN  /\ ret.result.tx_id = ret.tx_id
                   /\ ret.result.data_hash = entry.data_hash
                   /\ ret.result.merkle_root = entry.merkle_root
                   /\ ret.result.merkle_proof = entry.merkle_proof
                   /\ ret.result.source_url = entry.source
                   /\ ret.result.metadata = IF "metadata" \in DOMAIN entry
                                            THEN entry.metadata
                                            ELSE EmptyDict

\* The second of three recorded entries is read back, with its metadata and
\* its proof.
C30_Witness ==
    /\ IsGet
    /\ Len(recorded) = 3
    /\ ret.tx_id = recorded[2].tx_id
    /\ "metadata" \in DOMAIN recorded[2].entry
    /\ ret.result # NoneValue
    /\ ret.result.metadata = DictA1
    /\ Len(ret.result.merkle_proof) = 1
    /\ "metadata" \notin DOMAIN recorded[1].entry

(***************************************************************************)
(* Properties of the empty tree (checked under SpecTreeVerify).            *)
(***************************************************************************)
\* C26: get_root of a tree with no leaves returns None, and verify_proof
\* against a root of None returns false for every data and every proof, the
\* empty proof included.
C26_EmptyTree ==
    /\ (ret.op = "get_root" /\ merkle_tree.leaves = <<>>) => ret.result = NoneValue
    /\ (ret.op = "verify_proof" /\ ret.root = NoneValue) =>
           /\ "result" \in DOMAIN ret
           /\ ret.result = FALSE

\* The same for the data str.encode('utf-8') accepts.
C26_EncodableData ==
    /\ (ret.op = "get_root" /\ merkle_tree.leaves = <<>>) => ret.result = NoneValue
    /\ (ret.op = "verify_proof" /\ ret.root = NoneValue /\ can_encode(ret.leaf_data)) =>
           /\ "result" \in DOMAIN ret
           /\ ret.result = FALSE

(***************************************************************************)
(* Properties of add_leaf's termination (checked under SpecTreeLive).      *)
(***************************************************************************)
\* Every add_leaf call entered returns or raises.
C28_Terminates == (pc[Writer] = "append") ~> (pc[Writer] = "done")

\* Every iteration of the level-building loop leaves a strictly shorter
\* level.
C28_LevelsShrink ==
    [][(pc[Writer] = "pair_level" /\ pc'[Writer] = "pair_level")
           => Len(loc'[Writer].current_level) < Len(loc[Writer].current_level)]_vars

\* No add_leaf call ends by raising.
C28_NeverFails == [](pc[Writer] = "done" => "raised" \notin DOMAIN loc[Writer])

\* C28: add_leaf terminates and never fails for any string input and any
\* current tree, each new level of the building loop being strictly shorter
\* than the one before while the level has more than one node.
C28_AddLeafTotal == C28_Terminates /\ C28_LevelsShrink /\ C28_NeverFails

(***************************************************************************)
(* Properties relating the manager's tree, ledger and snapshots (checked   *)
(* under Spec unless said otherwise).                                      *)
(***************************************************************************)
\* A verify_data_integrity call that returned the checks of a known transaction.
IsVerifyKnown ==
    /\ IsVerify
    /\ has_key(transactions, ret.tx_hash)
    /\ "raised" \notin DOMAIN ret.result

\* C32: every result of verify_data_integrity for a known transaction has
\* verified = hashes_match AND merkle_verified, and for a transaction made by
\* register_data_snapshot hashes_match and merkle_verified are equal.
C32_ChecksAgree ==
    IsVerifyKnown =>
        /\ "hashes_match" \in DOMAIN ret.result
        /\ ret.result.verified = (ret.result.hashes_match /\ ret.result.merkle_verified)
        /\ RegistrationsOf(ret.tx_hash) # {} =>
               ret.result.hashes_match = ret.result.merkle_verified

\* The first of two registered transactions verified with the second one's
\* payload: both checks are false.
C32_Witness ==
    /\ IsVerifyKnown
    /\ Len(registered) = 2
    /\ ret.tx_hash = registered[1].tx_hash
    /\ ret.data = registered[2].data
    /\ ~ret.result.hashes_match
    /\ ~ret.result.merkle_verified
    /\ ~ret.result.verified

\* The manager's ledger received records from its own registrations only.
OwnsLedger == Len(recorded) = Len(registered)

\* The digests of the first i registered payloads' serializations.
RegisteredDigests(i) ==
    [j \in 1..i |-> sha256(encode(json_dumps(registered[j].data)))]

\* C33: for a manager that owns its ledger and is used sequentially, the
\* numbers of tree leaves, of ledger transactions and of successful
\* registrations and the ledger counter are equal; the merkle_root of the
\* i-th transaction is the reference root over the first i leaves; the
\* merkle_root of the most recent transaction is the tree's current root.
C33_TreeLedgerInStep ==
    OwnsLedger =>
        /\ Len(merkle_tree.leaves) = Len(registered)
        /\ Len(transactions) = Len(registered)
        /\ transaction_counter = Len(registered)
        /\ merkle_tree.leaves = RegisteredDigests(Len(registered))
        /\ \A i \in 1..Len(registered) :
               transactions[i].merkle_root = hex(reference_root(RegisteredDigests(i)))
        /\ Len(registered) >= 1 =>
               transactions[Len(transactions)].merkle_root = get_root(merkle_tree)

\* Two registrations of different payloads and no direct record.
C33_Witness ==
    /\ OwnsLedger
    /\ Len(registered) = 2
    /\ ret.op = "register" /\ "result" \in DOMAIN ret
    /\ ret.result.tx_hash = transactions[2].tx_id
    /\ transactions[1].merkle_root # transactions[2].merkle_root
    /\ transactions[2].merkle_root = get_root(merkle_tree)
    /\ transactions[1].merkle_root = hex(merkle_tree.leaves[1])

\* C34: in every reachable state every snapshot entry names a transaction of
\* the ledger with the same data_hash, the same root and proof as its
\* merkle_result and the same source_url, and is stored under
\* source_url + ':' + its timestamp.
C34_SnapshotMatchesTransaction ==
    \A snapshot_id \in DOMAIN snapshots :
        LET snapshot == snapshots[snapshot_id]
        IN  /\ has_key(transactions, snapshot.tx_hash)
            /\ \A i \in StoredUnder(snapshot.tx_hash) :
                   /\ snapshot.data_hash = transactions[i].data_hash
                   /\ snapshot.merkle_result.root = transactions[i].merkle_root
                   /\ snapshot.merkle_result.proof = transactions[i].merkle_proof
                   /\ snapshot.source_url = transactions[i].source_url
            /\ snapshot_id = [source |-> snapshot.source_url, sep |-> ":",
                              ts |-> isoformat(snapshot.timestamp)]

\* Two snapshots, the second with a one-entry proof, next to its transaction.
C34_Witness ==
    /\ Cardinality(DOMAIN snapshots) = 2
    /\ Len(transactions) = 2
    /\ \E snapshot_id \in DOMAIN snapshots :
           /\ snapshots[snapshot_id].tx_hash = transactions[2].tx_id
           /\ Len(snapshots[snapshot_id].merkle_result.proof) = 1
           /\ snapshots[snapshot_id].merkle_result.proof = transactions[2].merkle_proof

\* The operations that only read.
ReadOps == {"verify", "report", "certificate", "get", "list", "get_root"}

\* C35: verify_data_integrity, generate_integrity_report,
\* export_verification_certificate, get_transaction, list_transactions and
\* get_root leave the tree (leaves, levels, root), the ledger (transactions,
\* counter) and the snapshot map unchanged, for every argument, unknown ids
\* included.
C35_ReadsChangeNothing ==
    [][(ret'.op \in ReadOps /\ ret' # ret) =>
           /\ merkle_tree'.leaves = merkle_tree.leaves
           /\ merkle_tree'.tree = merkle_tree.tree
           /\ merkle_tree'.root = merkle_tree.root
           /\ transactions' = transactions
           /\ transaction_counter' = transaction_counter
           /\ snapshots' = snapshots]_vars

\* A report over a stored and an unknown snapshot id was made on a manager
\* holding two registrations, all still in place.
C35_Witness ==
    /\ IsReport
    /\ Len(ret.snapshot_ids) = 2
    /\ ret.snapshot_ids[1] \in DOMAIN snapshots
    /\ ret.snapshot_ids[2] = UnknownSnapshotId
    /\ Len(registered) = 2
    /\ Len(merkle_tree.leaves) = 2
    /\ Len(transactions) = 2
    /\ transaction_counter = 2

(***************************************************************************)
(* Properties of reads running beside record_transaction (checked under    *)
(* SpecLedgerRead).                                                        *)
(***************************************************************************)
\* A transaction dict with every field of some caller's entry.
CompleteTransaction(transaction) ==
    \E t \in Threads :
        LET entry == loc[t].transaction_data
        IN  /\ transaction.tx_id \in ConcTxHashes
            /\ transaction.timestamp \in {isoformat(time) : time \in 0..MaxTime}
            /\ transaction.data_hash = entry.data_hash
            /\ transaction.merkle_root = entry.merkle_root
            /\ transaction.merkle_proof = entry.merkle_proof
            /\ transaction.source_url = entry.source
            /\ transaction.metadata = EmptyDict

\* A read sees each transaction not at all or with all its fields.
C31_NeverPartial ==
    /\ (ret.op = "get" /\ ret.result # NoneValue) => CompleteTransaction(ret.result)
    /\ ret.op = "list" =>
           \A i \in 1..Len(ret.result) : CompleteTransaction(ret.result[i])

\* A get_transaction(id) started after a record_transaction call returned id
\* returns the transaction of that call.
C31_VisibleAfterReturn ==
    ret.op = "get" =>
        \A k \in 1..ret.returned :
            recorded[k].tx_id = ret.tx_id =>
                /\ ret.result # NoneValue
                /\ ret.result.data_hash = recorded[k].entry.data_hash
                /\ ret.result.merkle_root = recorded[k].entry.merkle_root
                /\ ret.result.source_url = recorded[k].entry.source

\* C31: a get_transaction or list_transactions call running beside
\* record_transaction sees the new transaction not at all or complete, and
\* once record_transaction has returned id every get_transaction(id) started
\* afterwards returns that transaction.
C31_ReadsBesideRecord == C31_NeverPartial /\ C31_VisibleAfterReturn

\* The same second half when the calls that returned so far got distinct ids.
C31_VisibleWhenIdsDistinct ==
    (\A j, k \in 1..Len(recorded) : j # k => recorded[j].tx_id # recorded[k].tx_id)
        => C31_VisibleAfterReturn

====
